---- MODULE Spec2Model ----
(***************************************************************************)
(* CodeMate autonomy gateway (src/localcopilot/codemate_gateway.py).       *)
(*                                                                         *)
(* The model follows one task through the Engine.  Every Store call is one *)
(* atomic step (Store._lock serialises them); the threads that make the    *)
(* calls interleave freely between two Store calls:                        *)
(*   - the request thread of POST /v1/tasks          (creator),            *)
(*   - the request threads of approve / deny / cancel (calls),             *)
(*   - the worker threads started by create_task and by approve (workers). *)
(* Step ids "{task_id}_step_{NN}" are represented by their step_index NN;  *)
(* 0 stands for NULL / None.                                               *)
(*                                                                         *)
(* The specifications share the actions:                                   *)
(*   Spec         one task with approve / deny / cancel requests for it,   *)
(*   SpecFair     as Spec, every thread being scheduled as long as it can  *)
(*                run,                                                     *)
(*   SpecUnknown  requests that name a task id no task has,                *)
(*   SpecPlanner  the planner over many goals and every max_steps, and the *)
(*                run of the plan without requests,                        *)
(*   SpecCreate   the reads of the snapshot Engine.create_task returns,    *)
(*                against the worker it has started,                       *)
(*   SpecLive     one task without requests, every thread being scheduled  *)
(*                as long as it can run,                                   *)
(*   SpecGated    as Spec, for a plan with two high-risk steps,            *)
(*   SpecStream   one task and one event-stream request,                   *)
(*   SpecCancel   one task, a cancel request and one event-stream request, *)
(*   SpecHub      the EventHub alone, called with any task id and handle,  *)
(*   SpecRaise    one task and approve requests, with a raising Store call.*)
(* In the specifications without an event-stream request no handle is ever *)
(* subscribed, so a publish delivers to nobody: there the scheduling of    *)
(* the publish coroutine is part of the step that stores the event.        *)
(***************************************************************************)
EXTENDS Integers, Sequences, FiniteSets, Bags, TLC

VARIABLES
    task,              \* the row of table tasks (status "none": not inserted yet)
    task_steps,        \* the rows of table task_steps, in insertion order
    tool_runs,         \* the rows of table tool_runs, in insertion order
    task_events,       \* the rows of table task_events; the id is the position
    memory_items,      \* the keys of the rows of table memory_items
    pending_approval,  \* Engine.pending_approval[task_id], 0 when absent
    workers,           \* the worker threads, in the order they were started
    calls,             \* the approve / deny / cancel requests in progress (a bag)
    called,            \* how many requests of each kind have arrived
    returned,          \* how many requests of each kind have returned
    approved,          \* the step ids approve calls took out of pending_approval
    creator,           \* position of the POST /v1/tasks request thread
    expired,           \* time.time() - created_at > time_budget_sec
    reply,             \* the snapshot Engine.create_task reads for its reply
    queues,            \* EventHub._queues: the handles subscribed to each task id
    inbox,             \* the content of each handle (an asyncio.Queue)
    reactor,           \* the publish coroutines scheduled on Engine.loop, in order
    unpublished,       \* events stored whose publish is not scheduled yet
    streams,           \* the GET /v1/tasks/{id}/events requests, by handle
    seen,              \* history: the Store states since the first read of
                       \* create_task's snapshot that agree with what it has read
    raised             \* history: the workers in which an exception was raised

vars == <<task, task_steps, tool_runs, task_events, memory_items,
          pending_approval, workers, calls, called, returned, approved,
          creator, expired, reply, queues, inbox, reactor, unpublished,
          streams, seen, raised>>

----------------------------------------------------------------------------
(* Bounds of the model.                                                    *)

\* number of approve / deny / cancel requests made in one behaviour
MaxCalls == 2

\* goals submitted in the engine model, as lists of words
Goals ==
    { <<"show", "status">>,
      <<"push", "latest", "changes">> }

\* a goal whose plan has two high-risk steps (git_push, github_create_repo)
GatedGoals == { <<"publish", "create", "repo">> }

\* max_steps values submitted in the engine model (TaskCreateRequest: 2..30)
MaxStepsChoices == {8}

\* goals submitted in the planner model: every trigger of Planner.plan alone,
\* some combinations, none and all of them
PlannerGoals ==
    { <<"show", "status">>,
      <<"update", "README">>,
      <<"write", "notes.txt">>,
      <<"generate", "README.md">>,
      <<"run", "unit", "tests">>,
      <<"pytest">>,
      <<"commit", "changes">>,
      <<"push", "latest", "changes">>,
      <<"publish", "it">>,
      <<"create", "repo">>,
      <<"create", "repository">>,
      <<"create", "README", "and", "commit">>,
      <<"test", "commit", "push">>,
      <<"make", "README.md", "test", "commit", "publish", "create", "repo">> }

\* the handles (asyncio.Queue objects) EventHub.subscribe can return
Handles == {"q1", "q2"}

\* the most publish coroutines waiting on the reactor, and the most events
\* waiting in one handle (both are unbounded in the code)
MaxBacklog == 1

\* the id Store.create_task gave the task, and an id no task has
TaskId == "task_1"

UnknownId == "task_0"

----------------------------------------------------------------------------
(* Constants of the program.                                               *)

\* TaskCreateRequest.max_steps: Field(default=8, ge=2, le=30)
MinMaxSteps == 2

MaxMaxSteps == 30

TASK_STATES ==
    {"queued", "planning", "running", "waiting_approval",
     "completed", "failed", "cancelled"}

\* mutant: every tool gets the default of TOOL_RISK.get(tool_name, "medium")
TOOL_RISK_default_only(tool_name) == "medium"

TOOL_RISK(tool_name) ==
    CASE tool_name \in {"git_status", "run_tests", "summarize_task"} -> "low"
      [] tool_name \in {"write_file", "generate_readme", "git_commit"} -> "medium"
      [] tool_name \in {"git_push", "github_create_repo",
                        "github_update_description"} -> "high"
      [] OTHER -> "medium"

----------------------------------------------------------------------------
(* Planner.plan.  A goal is a list of words; `k in g` of the code is       *)
(* substring search, modelled word by word with the table keyword_in.      *)

lower(word) ==
    CASE word = "README" -> "readme"
      [] word = "README.md" -> "readme.md"
      [] OTHER -> word

\* keyword k occurs inside the (lower-cased) word w
keyword_in(k, w) ==
    CASE k = "readme" -> w \in {"readme", "readme.md"}
      [] k = "test"   -> w \in {"test", "tests", "pytest"}
      [] OTHER        -> w = k

\* `k in g` for a one-word keyword
contains(g, k) == \E i \in 1..Len(g) : keyword_in(k, g[i])

\* `"a b" in g` for a two-word phrase: a ends word i, b starts word i+1
contains2(g, a, bs) ==
    \E i \in 1..(Len(g) - 1) : g[i] = a /\ g[i + 1] \in bs

\* re.search(r"\b([\w\-./\\]+\.[a-zA-Z0-9]{1,8})\b", goal) finds a match
path_match(goal) ==
    \E i \in 1..Len(goal) : goal[i] \in {"README.md", "readme.md", "notes.txt"}

\* mutant: the step counter starts at 0
add_from_zero(i, tool_name, idempotent) ==
    [step_index |-> i - 1, tool_name |-> tool_name,
     risk_level |-> TOOL_RISK(tool_name), idempotent |-> idempotent]

\* the nested function add of Planner.plan: one step dict
add(i, tool_name, idempotent) ==
    [step_index |-> i, tool_name |-> tool_name,
     risk_level |-> TOOL_RISK(tool_name), idempotent |-> idempotent]

\* mutant: the list is returned whole
truncate_never(steps, max_steps) == steps

\* `steps[:max_steps]`
truncate(steps, max_steps) ==
    SubSeq(steps, 1, IF max_steps < Len(steps) THEN max_steps ELSE Len(steps))

plan(goal, max_steps) ==
    LET g  == [i \in 1..Len(goal) |-> lower(goal[i])]
        s1 == << <<"git_status", TRUE>> >>
        s2 == IF contains(g, "readme")
              THEN Append(s1, <<"generate_readme", TRUE>>) ELSE s1
        s3 == IF path_match(goal)
                 /\ \E k \in {"create", "write", "generate", "make"} : contains(g, k)
              THEN Append(s2, <<"write_file", TRUE>>) ELSE s2
        s4 == IF contains(g, "test") \/ contains(g, "pytest")
                 \/ contains2(g, "unit", {"test", "tests"})
              THEN Append(s3, <<"run_tests", TRUE>>) ELSE s3
        s5 == IF contains(g, "commit")
              THEN Append(s4, <<"git_commit", FALSE>>) ELSE s4
        s6 == IF contains(g, "push") \/ contains(g, "publish")
              THEN Append(s5, <<"git_push", FALSE>>) ELSE s5
        s7 == IF contains2(g, "create", {"repo", "repository"})
                 \/ contains2(g, "create", {"repository"})
              THEN Append(s6, <<"github_create_repo", FALSE>>) ELSE s6
        s8 == Append(s7, <<"summarize_task", TRUE>>)
        steps == [i \in 1..Len(s8) |-> add(i, s8[i][1], s8[i][2])]
    IN  truncate(steps, max_steps)

----------------------------------------------------------------------------
(* Store.                                                                  *)

NoTask == [id |-> "none", status |-> "none", goal |-> <<>>, max_steps |-> 0,
           current_step_id |-> 0, error |-> "null"]

\* Store.create_task: the inserted row
create_task_row(goal, max_steps) ==
    [id |-> TaskId, status |-> "queued", goal |-> goal, max_steps |-> max_steps,
     current_step_id |-> 0, error |-> "null"]

\* Store.get_task: SELECT * FROM tasks WHERE id=?; NoTask stands for None
get_task(t, task_id) == IF t.id = task_id THEN t ELSE NoTask

\* Store.set_task: UPDATE tasks SET status, current_step_id, error WHERE id
\* (no row is written for an unknown status, which raises, or when no row
\* has the id)
set_task(t, task_id, status, current_step_id, error) ==
    IF t.id # task_id \/ status \notin TASK_STATES THEN t
    ELSE [t EXCEPT !.status = status,
                   !.current_step_id = current_step_id,
                   !.error = error]

\* Store.set_step: UPDATE task_steps SET status, output_json WHERE id
set_step(rows, step_id, status, output) ==
    IF step_id \in DOMAIN rows
    THEN [rows EXCEPT ![step_id].status = status, ![step_id].output = output]
    ELSE rows

\* Store.add_steps: every step inserted with status pending and output NULL
add_steps(steps) ==
    [i \in 1..Len(steps) |->
        [step_index |-> steps[i].step_index, tool_name |-> steps[i].tool_name,
         risk_level |-> steps[i].risk_level, idempotent |-> steps[i].idempotent,
         status |-> "pending", output |-> "null"]]

\* Store.event: INSERT INTO task_events; the row id is the new length
event(rows, task_id, event_type, payload) ==
    Append(rows, [task_id |-> task_id, event_type |-> event_type,
                  payload |-> payload])

\* Store.tool_run: INSERT INTO tool_runs
tool_run(rows, step_id, result) ==
    Append(rows, [step_id |-> step_id, ok |-> result.ok,
                  error |-> result.error])

\* Store.memory: INSERT INTO memory_items
memory(rows, key) == rows \cup {key}

\* mutant: the steps are read in descending step_index order
snapshot_steps_desc(rows) ==
    LET R == {rows[i] : i \in DOMAIN rows}
    IN  [i \in 1..Cardinality(R) |->
            CHOOSE r \in R :
                Cardinality({q \in R : q.step_index > r.step_index}) = i - 1]

\* Store.snapshot: SELECT * FROM task_steps WHERE task_id=? ORDER BY step_index ASC
snapshot_steps(rows) ==
    LET R == {rows[i] : i \in DOMAIN rows}
    IN  [i \in 1..Cardinality(R) |->
            CHOOSE r \in R :
                Cardinality({q \in R : q.step_index < r.step_index}) = i - 1]

\* Store.snapshot makes three reads on a connection that holds no lock and
\* is in no transaction: the task row (KeyError when there is none), the
\* step rows, and the event rows, here the ids of the task's events
NoSnapshot == [task |-> NoTask, steps |-> <<>>, events |-> {}]

snapshot_events(rows, task_id) ==
    {i \in DOMAIN rows : rows[i].task_id = task_id}

\* payloads of the events the Engine emits
Payload(status, key, step_id, reason) ==
    [status |-> status, key |-> key, step_id |-> step_id, reason |-> reason]

----------------------------------------------------------------------------
(* Threads.                                                                *)

\* `last` of _run_with_retry before the first attempt
NoResult == [ok |-> FALSE, transient |-> FALSE, error |-> "Unknown failure"]

\* a worker thread: its position and its locals (snap, the index of `step` in
\* snap["steps"], attempt, and result with transient)
Worker(pc) ==
    [pc |-> pc, snap |-> <<>>, idx |-> 0, attempt |-> 0, result |-> NoResult]

WorkerDone == Worker("done")

NoCalls == [approve |-> 0, deny |-> 0, cancel |-> 0]

\* EventHub.__init__: self._queues = {}
NoQueues == [t \in {TaskId, UnknownId} |-> <<>>]

\* an event-stream request: its position ("off": no such request is made),
\* its task_id, the ids of the events in the snapshot it read, and the
\* messages it has sent (0: the snapshot message, otherwise the id of the
\* forwarded event)
Stream(pc) == [pc |-> pc, task_id |-> TaskId, events |-> {}, sent |-> <<>>]

Init ==
    /\ task = NoTask
    /\ task_steps = <<>>
    /\ tool_runs = <<>>
    /\ task_events = <<>>
    /\ memory_items = {}
    /\ pending_approval = 0
    /\ workers = <<>>
    /\ calls = EmptyBag
    /\ called = NoCalls
    /\ returned = NoCalls
    /\ approved = {}
    /\ creator = "create_task"
    /\ expired = FALSE
    /\ reply = NoSnapshot
    /\ queues = NoQueues
    /\ inbox = [q \in Handles |-> <<>>]
    /\ reactor = <<>>
    /\ unpublished = {}
    /\ streams = [q \in Handles |-> Stream("off")]
    /\ seen = {}
    /\ raised = {}

----------------------------------------------------------------------------
(* EventHub, and Engine._emit.  The hub's coroutines run on the reactor    *)
(* (the asyncio loop, one thread).  The hub's lock is never held across an *)
(* await, so every coroutine of the hub runs from start to end without     *)
(* another one in between.                                                 *)

\* mutant: the handle is returned without being kept
subscribe_nothing(qs, task_id, q) == qs

\* EventHub.subscribe: self._queues.setdefault(task_id, []).append(q)
subscribe(qs, task_id, q) == [qs EXCEPT ![task_id] = Append(@, q)]

\* EventHub.unsubscribe: arr.remove(q) if q in arr (the first occurrence);
\* an empty list is popped, which leaves the same lookups
unsubscribe(qs, task_id, q) ==
    LET arr == qs[task_id]
        at  == {i \in 1..Len(arr) : arr[i] = q}
    IN  IF at = {} THEN qs
        ELSE LET first == CHOOSE i \in at : \A j \in at : i <= j
             IN  [qs EXCEPT ![task_id] =
                    SubSeq(arr, 1, first - 1) \o SubSeq(arr, first + 1, Len(arr))]

\* mutant: the event goes to the handles of every task id
publish_targets_all(qs, task_id) == qs[TaskId] \o qs[UnknownId]

\* `arr = list(self._queues.get(task_id, []))` in EventHub.publish
publish_targets(qs, task_id) == qs[task_id]

\* `for q in arr: q.put_nowait(event)`: the queues are unbounded, so no put
\* fails
RECURSIVE put_all(_, _, _)
put_all(box, arr, e) ==
    IF arr = <<>> THEN box
    ELSE put_all([box EXCEPT ![Head(arr)] = Append(@, e)], Tail(arr), e)

\* EventHub.publish
publish(box, qs, task_id, e) == put_all(box, publish_targets(qs, task_id), e)

\* some event-stream request is still to arrive or is being served
Streaming == \E q \in Handles : streams[q].pc \notin {"off", "closed"}

\* Engine._emit on thread `thread` (the index of a worker; 0 for a request
\* thread that returns after it): self.store.event(...), which leaves the
\* event to be published
Emit(thread, task_id, event_type, payload) ==
    /\ task_events' = event(task_events, task_id, event_type, payload)
    /\ unpublished' =
          IF Streaming
          THEN unpublished \cup {[thread |-> thread, task_id |-> task_id,
                                   id |-> Len(task_events) + 1]}
          ELSE unpublished

\* what Store.snapshot(TaskId) returns when its three reads are made at
\* one instant
StoreState ==
    [task   |-> get_task(task, TaskId),
     steps  |-> snapshot_steps(task_steps),
     events |-> snapshot_events(task_events, TaskId)]

\* create_task is between the first and the last read of its snapshot
Snapshotting == creator \in {"read_steps", "read_events"}

\* Store state s agrees with what that snapshot has read so far
Agrees(s) ==
    /\ s.task = reply.task
    /\ creator = "read_events" => s.steps = reply.steps

\* a write to the Store: the new state is one more instant the snapshot in
\* progress could be the view of
Observe ==
    seen' = IF Snapshotting /\ Agrees(StoreState')
            THEN seen \cup {StoreState'}
            ELSE seen

\* the publish of every event stored by `thread` is scheduled: _emit
\* schedules it right after the event is stored, before the thread goes on
\* and before the worker thread it then starts can run
Scheduled(thread) == \A u \in unpublished : u.thread # thread

----------------------------------------------------------------------------
(* Engine.create_task, on the request thread of POST /v1/tasks.  The       *)
(* thread it starts is worker 1.                                           *)

create_task_store(goals, max_steps_choices) ==
    /\ creator = "create_task"
    /\ \E goal \in goals, max_steps \in max_steps_choices :
          task' = create_task_row(goal, max_steps)
    /\ creator' = "emit"
    /\ UNCHANGED <<task_steps, tool_runs, task_events, memory_items,
                   pending_approval, workers, calls, called, returned,
                   approved, expired, reply, queues, inbox, reactor,
                   unpublished, streams, raised>>
    /\ Observe

\* _emit(task_updated{queued}), then Thread(target=_plan_and_run).start()
create_task_emit ==
    /\ creator = "emit"
    /\ Emit(1, TaskId, "task_updated", Payload("queued", "none", 0, "null"))
    /\ workers' = Append(workers, Worker("plan_set_planning"))
    /\ creator' = "snapshot"
    /\ UNCHANGED <<task, task_steps, tool_runs, memory_items,
                   pending_approval, calls, called, returned, approved,
                   expired, reply, queues, inbox, reactor, streams, raised>>
    /\ Observe

\* return self.store.snapshot(task_id): three reads that change nothing
create_task_snapshot ==
    /\ creator = "snapshot"
    /\ Scheduled(1)
    /\ creator' = "done"
    /\ UNCHANGED <<task, task_steps, tool_runs, task_events, memory_items,
                   pending_approval, workers, calls, called, returned,
                   approved, expired, reply, queues, inbox, reactor,
                   unpublished, streams, seen, raised>>

\* the same line, one read at a time, with what was read kept in reply:
\* SELECT * FROM tasks WHERE id=?
create_task_read_task ==
    /\ creator = "snapshot"
    /\ Scheduled(1)
    /\ reply' = [reply EXCEPT !.task = get_task(task, TaskId)]
    /\ seen' = {StoreState}
    /\ creator' = "read_steps"
    /\ UNCHANGED <<task, task_steps, tool_runs, task_events, memory_items,
                   pending_approval, workers, calls, called, returned,
                   approved, expired, queues, inbox, reactor, unpublished,
                   streams, raised>>

\* SELECT * FROM task_steps WHERE task_id=? ORDER BY step_index ASC
create_task_read_steps ==
    /\ creator = "read_steps"
    /\ reply' = [reply EXCEPT !.steps = snapshot_steps(task_steps)]
    /\ seen' = {s \in seen : s.steps = snapshot_steps(task_steps)}
    /\ creator' = "read_events"
    /\ UNCHANGED <<task, task_steps, tool_runs, task_events, memory_items,
                   pending_approval, workers, calls, called, returned,
                   approved, expired, queues, inbox, reactor, unpublished,
                   streams, raised>>

\* SELECT * FROM task_events WHERE task_id=? ORDER BY id ASC; return
create_task_read_events ==
    /\ creator = "read_events"
    /\ reply' = [reply EXCEPT !.events = snapshot_events(task_events, TaskId)]
    /\ seen' = {s \in seen : s.events = snapshot_events(task_events, TaskId)}
    /\ creator' = "done"
    /\ UNCHANGED <<task, task_steps, tool_runs, task_events, memory_items,
                   pending_approval, workers, calls, called, returned,
                   approved, expired, queues, inbox, reactor, unpublished,
                   streams, raised>>

----------------------------------------------------------------------------
(* Engine._plan_and_run, on the worker thread started by create_task.      *)

W(w) == workers[w]

\* worker w is at pc; a thread that has stored an event first schedules its
\* publish (emit_schedule)
AtPc(w, pc) ==
    /\ w \in DOMAIN workers
    /\ workers[w].pc = pc
    /\ Scheduled(w)

Goto(w, pc) == workers' = [workers EXCEPT ![w].pc = pc]

plan_set_planning(w) ==
    /\ AtPc(w, "plan_set_planning")
    /\ task' = set_task(task, TaskId, "planning", 0, "null")
    /\ Goto(w, "plan_emit_planning")
    /\ UNCHANGED <<task_steps, tool_runs, task_events, memory_items,
                   pending_approval, calls, called, returned, approved,
                   creator, expired, reply, queues, inbox, reactor,
                   unpublished, streams, raised>>
    /\ Observe

plan_emit_planning(w) ==
    /\ AtPc(w, "plan_emit_planning")
    /\ Emit(w, TaskId, "task_updated", Payload("planning", "none", 0, "null"))
    /\ Goto(w, "plan_add_steps")
    /\ UNCHANGED <<task, task_steps, tool_runs, memory_items,
                   pending_approval, calls, called, returned, approved,
                   creator, expired, reply, queues, inbox, reactor, streams,
                   raised>>
    /\ Observe

\* the checks on the planner's output: the ValueError raised, or "none"
planning_error(steps, max_steps) ==
    IF Len(steps) = 0 THEN "Planner returned zero steps"
    ELSE IF Len(steps) > max_steps THEN "Planner exceeded max steps"
    ELSE IF \E i \in 1..Len(steps) : steps[i].tool_name = ""
         THEN "Step missing tool intent"
    ELSE "none"

\* steps = self.planner.plan(...); the checks; self.store.add_steps(task_id,
\* steps).  A ValueError takes the thread to the except clause.
plan_add_steps(w) ==
    /\ AtPc(w, "plan_add_steps")
    /\ LET steps == plan(task.goal, task.max_steps)
       IN  IF planning_error(steps, task.max_steps) = "none"
           THEN /\ task_steps' = add_steps(steps)
                /\ Goto(w, "plan_set_running")
           ELSE /\ task_steps' = task_steps
                /\ Goto(w, "plan_except")
    /\ UNCHANGED <<task, tool_runs, task_events, memory_items,
                   pending_approval, calls, called, returned, approved,
                   creator, expired, reply, queues, inbox, reactor,
                   unpublished, streams, raised>>
    /\ Observe

plan_set_running(w) ==
    /\ AtPc(w, "plan_set_running")
    /\ task' = set_task(task, TaskId, "running", 0, "null")
    /\ Goto(w, "plan_emit_running")
    /\ UNCHANGED <<task_steps, tool_runs, task_events, memory_items,
                   pending_approval, calls, called, returned, approved,
                   creator, expired, reply, queues, inbox, reactor,
                   unpublished, streams, raised>>
    /\ Observe

\* _emit(task_updated{running, planned_steps}); then self._run(task_id)
plan_emit_running(w) ==
    /\ AtPc(w, "plan_emit_running")
    /\ Emit(w, TaskId, "task_updated",
            Payload("running", "planned_steps", Len(task_steps), "null"))
    /\ Goto(w, "run_snapshot")
    /\ UNCHANGED <<task, task_steps, tool_runs, memory_items,
                   pending_approval, calls, called, returned, approved,
                   creator, expired, reply, queues, inbox, reactor, streams,
                   raised>>
    /\ Observe

----------------------------------------------------------------------------
(* Engine._run, on a worker thread (started by create_task or by approve). *)

\* the step dict of the snapshot the loop is at, and its id
Step(w) == workers[w].snap[workers[w].idx]

StepId(w) == Step(w).step_index

\* mutant: a resumed worker runs the steps that are already completed
skip_step_never(status) == FALSE

\* `if step["status"] in {"completed", "denied"}: continue`
skip_step(status) == status \in {"completed", "denied"}

\* mutant: no approval gate
needs_approval_never(step) == FALSE

\* `if step["risk_level"] == "high"`
needs_approval(step) == step.risk_level = "high"

\* mutant: the thread ends after one iteration
next_iteration_returns(wrec) == WorkerDone

\* the next iteration of `for step in snap["steps"]`, or the code after the loop
next_iteration(wrec) ==
    IF wrec.idx + 1 > Len(wrec.snap)
    THEN [wrec EXCEPT !.pc = "run_set_task_completed", !.idx = 0]
    ELSE [wrec EXCEPT !.pc = "run_loop", !.idx = wrec.idx + 1]

\* `return` after a failed step: the thread ends
after_failure(wrec) == WorkerDone

\* mutant: the time budget is not enforced
loop_head_unbudgeted(status, over_budget, step_status) ==
    CASE status = "cancelled" -> "run_emit_cancelled"
      [] status \notin {"running", "waiting_approval", "cancelled"} -> "done"
      [] OTHER -> IF skip_step(step_status) THEN "continue"
                  ELSE "run_set_in_progress"

\* the checks at the head of the loop body, on the row get_task returned
loop_head(status, over_budget, step_status) ==
    CASE status = "cancelled" -> "run_emit_cancelled"
      [] status \notin {"running", "waiting_approval", "cancelled"} -> "done"
      [] OTHER -> IF over_budget THEN "run_budget_set_step"
                  ELSE IF skip_step(step_status) THEN "continue"
                  ELSE "run_set_in_progress"

\* mutant: the worker goes on to the next step after asking for approval
after_approval_request_goes_on(wrec) == next_iteration(wrec)

\* `return` after approval_requested: the thread ends
after_approval_request(wrec) == WorkerDone

\* snap = self.store.snapshot(task_id)
run_snapshot(w) ==
    /\ AtPc(w, "run_snapshot")
    /\ workers' = [workers EXCEPT ![w] =
                      IF Len(task_steps) = 0
                      THEN [@ EXCEPT !.pc = "run_set_task_completed"]
                      ELSE [@ EXCEPT !.pc = "run_loop",
                                     !.snap = snapshot_steps(task_steps), !.idx = 1]]
    /\ UNCHANGED <<task, task_steps, tool_runs, task_events, memory_items,
                   pending_approval, calls, called, returned, approved,
                   creator, expired, reply, queues, inbox, reactor,
                   unpublished, streams, seen, raised>>

\* current = self.store.get_task(task_id) and the checks on it.  The clock is
\* read here and nowhere else: it is past the budget either already at an
\* earlier reading or, at the latest, from some reading on.
run_loop(w) ==
    /\ AtPc(w, "run_loop")
    /\ \E over_budget \in (IF expired THEN {TRUE} ELSE {FALSE, TRUE}) :
          /\ expired' = (expired \/ (over_budget /\ task.status \in
                                          {"running", "waiting_approval"}))
          /\ LET to == loop_head(task.status, over_budget, Step(w).status)
             IN  workers' = [workers EXCEPT ![w] =
                                CASE to = "continue" -> next_iteration(@)
                                  [] to = "done" -> WorkerDone
                                  [] OTHER -> [@ EXCEPT !.pc = to]]
    /\ UNCHANGED <<task, task_steps, tool_runs, task_events, memory_items,
                   pending_approval, calls, called, returned, approved,
                   creator, reply, queues, inbox, reactor, unpublished,
                   streams, seen, raised>>

run_emit_cancelled(w) ==
    /\ AtPc(w, "run_emit_cancelled")
    /\ Emit(w, TaskId, "task_updated", Payload("cancelled", "none", 0, "null"))
    /\ workers' = [workers EXCEPT ![w] = WorkerDone]
    /\ UNCHANGED <<task, task_steps, tool_runs, memory_items,
                   pending_approval, calls, called, returned, approved,
                   creator, expired, reply, queues, inbox, reactor, streams,
                   raised>>
    /\ Observe

run_budget_set_step(w) ==
    /\ AtPc(w, "run_budget_set_step")
    /\ task_steps' = set_step(task_steps, StepId(w), "failed", "budget_error")
    /\ Goto(w, "run_budget_set_task")
    /\ UNCHANGED <<task, tool_runs, task_events, memory_items,
                   pending_approval, calls, called, returned, approved,
                   creator, expired, reply, queues, inbox, reactor,
                   unpublished, streams, raised>>
    /\ Observe

run_budget_set_task(w) ==
    /\ AtPc(w, "run_budget_set_task")
    /\ task' = set_task(task, TaskId, "failed", StepId(w), "Time budget exceeded")
    /\ Goto(w, "run_budget_emit")
    /\ UNCHANGED <<task_steps, tool_runs, task_events, memory_items,
                   pending_approval, calls, called, returned, approved,
                   creator, expired, reply, queues, inbox, reactor,
                   unpublished, streams, raised>>
    /\ Observe

run_budget_emit(w) ==
    /\ AtPc(w, "run_budget_emit")
    /\ Emit(w, TaskId, "task_failed",
            Payload("none", "step_id", StepId(w), "Time budget exceeded"))
    /\ workers' = [workers EXCEPT ![w] = WorkerDone]
    /\ UNCHANGED <<task, task_steps, tool_runs, memory_items,
                   pending_approval, calls, called, returned, approved,
                   creator, expired, reply, queues, inbox, reactor, streams,
                   raised>>
    /\ Observe

run_set_in_progress(w) ==
    /\ AtPc(w, "run_set_in_progress")
    /\ task_steps' = set_step(task_steps, StepId(w), "in_progress", "null")
    /\ Goto(w, "run_set_running")
    /\ UNCHANGED <<task, tool_runs, task_events, memory_items,
                   pending_approval, calls, called, returned, approved,
                   creator, expired, reply, queues, inbox, reactor,
                   unpublished, streams, raised>>
    /\ Observe

run_set_running(w) ==
    /\ AtPc(w, "run_set_running")
    /\ task' = set_task(task, TaskId, "running", StepId(w), "null")
    /\ Goto(w, "run_emit_current")
    /\ UNCHANGED <<task_steps, tool_runs, task_events, memory_items,
                   pending_approval, calls, called, returned, approved,
                   creator, expired, reply, queues, inbox, reactor,
                   unpublished, streams, raised>>
    /\ Observe

\* _emit(task_updated{running, current_step_id}); then the risk gate
run_emit_current(w) ==
    /\ AtPc(w, "run_emit_current")
    /\ Emit(w, TaskId, "task_updated",
            Payload("running", "current_step_id", StepId(w), "null"))
    /\ Goto(w, IF needs_approval(Step(w)) THEN "run_set_step_waiting"
               ELSE "retry_invoke")
    /\ UNCHANGED <<task, task_steps, tool_runs, memory_items,
                   pending_approval, calls, called, returned, approved,
                   creator, expired, reply, queues, inbox, reactor, streams,
                   raised>>
    /\ Observe

run_set_step_waiting(w) ==
    /\ AtPc(w, "run_set_step_waiting")
    /\ task_steps' = set_step(task_steps, StepId(w), "waiting_approval", "null")
    /\ Goto(w, "run_set_task_waiting")
    /\ UNCHANGED <<task, tool_runs, task_events, memory_items,
                   pending_approval, calls, called, returned, approved,
                   creator, expired, reply, queues, inbox, reactor,
                   unpublished, streams, raised>>
    /\ Observe

\* set_task(task_id, "waiting_approval", current_step_id=step["id"]): error=None
run_set_task_waiting(w) ==
    /\ AtPc(w, "run_set_task_waiting")
    /\ task' = set_task(task, TaskId, "waiting_approval", StepId(w), "null")
    /\ Goto(w, "run_set_pending")
    /\ UNCHANGED <<task_steps, tool_runs, task_events, memory_items,
                   pending_approval, calls, called, returned, approved,
                   creator, expired, reply, queues, inbox, reactor,
                   unpublished, streams, raised>>
    /\ Observe

\* with self._lock: self.pending_approval[task_id] = step["id"]
run_set_pending(w) ==
    /\ AtPc(w, "run_set_pending")
    /\ pending_approval' = StepId(w)
    /\ Goto(w, "run_emit_approval")
    /\ UNCHANGED <<task, task_steps, tool_runs, task_events, memory_items,
                   calls, called, returned, approved, creator, expired, reply,
                   queues, inbox, reactor, unpublished, streams, seen,
                   raised>>

run_emit_approval(w) ==
    /\ AtPc(w, "run_emit_approval")
    /\ Emit(w, TaskId, "approval_requested",
            Payload("none", "step_id", StepId(w), "null"))
    /\ workers' = [workers EXCEPT ![w] = after_approval_request(@)]
    /\ UNCHANGED <<task, task_steps, tool_runs, memory_items,
                   pending_approval, calls, called, returned, approved,
                   creator, expired, reply, queues, inbox, reactor, streams,
                   raised>>
    /\ Observe

----------------------------------------------------------------------------
(* Engine._run_with_retry and ToolRunner.run.                              *)

\* `for attempt in range(2)`
MaxAttempts == 2

\* ToolRunner.run: the results (ok, error) a tool can return, with the
\* transient flag.  summarize_task returns ok; the other tools act on the
\* outside world and can succeed, fail with a command's stderr as error,
\* here a blank one, or time out (the only transient failures), with the
\* exception's message as error.
runner_run(tool_name) ==
    IF tool_name = "summarize_task"
    THEN {[ok |-> TRUE, transient |-> FALSE, error |-> ""]}
    ELSE {[ok |-> TRUE, transient |-> FALSE, error |-> ""],
          [ok |-> FALSE, transient |-> FALSE, error |-> ""],
          [ok |-> FALSE, transient |-> TRUE, error |-> "timeout"]}

\* mutant: a failure that is not transient is retried as well
after_attempt_any_failure(result, attempt) ==
    IF result.ok THEN "return"
    ELSE IF attempt = MaxAttempts - 1 THEN "break"
    ELSE "sleep"

\* what the loop body does after an attempt (attempt counts from 0)
after_attempt(result, attempt) ==
    IF result.ok THEN "return"
    ELSE IF ~result.transient \/ attempt = MaxAttempts - 1 THEN "break"
    ELSE "sleep"

\* mutant: a failed result is taken for a success
result_failed_never(result) == FALSE

\* `if not result.get("ok")` in _run, on what _run_with_retry returned
result_failed(result) == ~result.ok

\* result, transient = self.runner.run(...): the tool call starts
retry_invoke(w) ==
    /\ AtPc(w, "retry_invoke")
    /\ Goto(w, "retry_tool_run")
    /\ UNCHANGED <<task, task_steps, tool_runs, task_events, memory_items,
                   pending_approval, calls, called, returned, approved,
                   creator, expired, reply, queues, inbox, reactor,
                   unpublished, streams, seen, raised>>

\* the tool call returns; self.store.tool_run(...); then return, break or
\* sleep and try again; back in _run the result decides the branch
retry_tool_run(w) ==
    /\ AtPc(w, "retry_tool_run")
    /\ \E result \in runner_run(Step(w).tool_name) :
          /\ tool_runs' = tool_run(tool_runs, StepId(w), result)
          /\ LET to == after_attempt(result, W(w).attempt)
             IN  workers' = [workers EXCEPT ![w] =
                    IF to = "sleep"
                    THEN [@ EXCEPT !.pc = "retry_invoke", !.attempt = @ + 1,
                                   !.result = result]
                    ELSE [@ EXCEPT !.pc = IF result_failed(result)
                                          THEN "run_set_step_failed"
                                          ELSE "run_set_completed",
                                   !.attempt = 0, !.result = result]]
    /\ UNCHANGED <<task, task_steps, task_events, memory_items,
                   pending_approval, calls, called, returned, approved,
                   creator, expired, reply, queues, inbox, reactor,
                   unpublished, streams, seen, raised>>

----------------------------------------------------------------------------
(* Engine._run, after _run_with_retry returned.                            *)

\* the result dict as persisted in output_json
output_of(result) ==
    IF result.ok THEN "ok_result"
    ELSE IF result.error = "" THEN "fail_result" ELSE "fail_result_timeout"

\* mutant: the error string is used as it is
reason_of_raw(result) == result.error

\* reason = result.get("error") or "Step failed"
reason_of(result) == IF result.error = "" THEN "Step failed" ELSE result.error

\* self.store.set_step(step["id"], "failed", output=result)
run_set_step_failed(w) ==
    /\ AtPc(w, "run_set_step_failed")
    /\ task_steps' = set_step(task_steps, StepId(w), "failed",
                              output_of(W(w).result))
    /\ Goto(w, "run_set_task_failed")
    /\ UNCHANGED <<task, tool_runs, task_events, memory_items,
                   pending_approval, calls, called, returned, approved,
                   creator, expired, reply, queues, inbox, reactor,
                   unpublished, streams, raised>>
    /\ Observe

run_set_task_failed(w) ==
    /\ AtPc(w, "run_set_task_failed")
    /\ task' = set_task(task, TaskId, "failed", StepId(w), reason_of(W(w).result))
    /\ Goto(w, "run_emit_failed")
    /\ UNCHANGED <<task_steps, tool_runs, task_events, memory_items,
                   pending_approval, calls, called, returned, approved,
                   creator, expired, reply, queues, inbox, reactor,
                   unpublished, streams, raised>>
    /\ Observe

run_emit_failed(w) ==
    /\ AtPc(w, "run_emit_failed")
    /\ Emit(w, TaskId, "task_failed",
            Payload("none", "step_id", StepId(w), reason_of(W(w).result)))
    /\ workers' = [workers EXCEPT ![w].pc = "run_memory_failure",
                                  ![w].result = NoResult]
    /\ UNCHANGED <<task, task_steps, tool_runs, memory_items,
                   pending_approval, calls, called, returned, approved,
                   creator, expired, reply, queues, inbox, reactor, streams,
                   raised>>
    /\ Observe

\* self.store.memory(task_id, "failure", reason, 0.2); return
run_memory_failure(w) ==
    /\ AtPc(w, "run_memory_failure")
    /\ memory_items' = memory(memory_items, "failure")
    /\ workers' = [workers EXCEPT ![w] = after_failure(@)]
    /\ UNCHANGED <<task, task_steps, tool_runs, task_events, pending_approval,
                   calls, called, returned, approved, creator, expired, reply,
                   queues, inbox, reactor, unpublished, streams, seen,
                   raised>>

\* self.store.set_step(step["id"], "completed", output=result)
run_set_completed(w) ==
    /\ AtPc(w, "run_set_completed")
    /\ task_steps' = set_step(task_steps, StepId(w), "completed",
                              output_of(W(w).result))
    /\ workers' = [workers EXCEPT ![w].pc = "run_emit_completed",
                                  ![w].result = NoResult]
    /\ UNCHANGED <<task, tool_runs, task_events, memory_items,
                   pending_approval, calls, called, returned, approved,
                   creator, expired, reply, queues, inbox, reactor,
                   unpublished, streams, raised>>
    /\ Observe

\* _emit(task_updated{running, completed_step_id}); end of the loop body
run_emit_completed(w) ==
    /\ AtPc(w, "run_emit_completed")
    /\ Emit(w, TaskId, "task_updated",
            Payload("running", "completed_step_id", StepId(w), "null"))
    /\ workers' = [workers EXCEPT ![w] = next_iteration(@)]
    /\ UNCHANGED <<task, task_steps, tool_runs, memory_items,
                   pending_approval, calls, called, returned, approved,
                   creator, expired, reply, queues, inbox, reactor, streams,
                   raised>>
    /\ Observe

\* after the loop: set_task(task_id, "completed", current_step_id=None, error=None)
run_set_task_completed(w) ==
    /\ AtPc(w, "run_set_task_completed")
    /\ task' = set_task(task, TaskId, "completed", 0, "null")
    /\ Goto(w, "run_emit_task_completed")
    /\ UNCHANGED <<task_steps, tool_runs, task_events, memory_items,
                   pending_approval, calls, called, returned, approved,
                   creator, expired, reply, queues, inbox, reactor,
                   unpublished, streams, raised>>
    /\ Observe

run_emit_task_completed(w) ==
    /\ AtPc(w, "run_emit_task_completed")
    /\ Emit(w, TaskId, "task_completed", Payload("none", "none", 0, "null"))
    /\ Goto(w, "run_memory_goal")
    /\ UNCHANGED <<task, task_steps, tool_runs, memory_items,
                   pending_approval, calls, called, returned, approved,
                   creator, expired, reply, queues, inbox, reactor, streams,
                   raised>>
    /\ Observe

run_memory_goal(w) ==
    /\ AtPc(w, "run_memory_goal")
    /\ memory_items' = memory(memory_items, "goal")
    /\ Goto(w, "run_memory_outcome")
    /\ UNCHANGED <<task, task_steps, tool_runs, task_events, pending_approval,
                   calls, called, returned, approved, creator, expired, reply,
                   queues, inbox, reactor, unpublished, streams, seen,
                   raised>>

run_memory_outcome(w) ==
    /\ AtPc(w, "run_memory_outcome")
    /\ memory_items' = memory(memory_items, "outcome")
    /\ workers' = [workers EXCEPT ![w] = WorkerDone]
    /\ UNCHANGED <<task, task_steps, tool_runs, task_events, pending_approval,
                   calls, called, returned, approved, creator, expired, reply,
                   queues, inbox, reactor, unpublished, streams, seen,
                   raised>>

----------------------------------------------------------------------------
(* Exceptions in a worker.  ToolRunner.run catches what a tool raises, and *)
(* the planner's checks do not fail (C19), so what can raise in a worker   *)
(* is a Store call (sqlite3.Error).  Worker 1 runs _run inside the try of  *)
(* _plan_and_run; a worker started by approve runs _run as the target of   *)
(* its thread, with no handler.                                            *)

\* number of exceptions raised in one behaviour
MaxFaults == 1

\* the positions of _run at which the next statement is a Store call
RunStorePcs ==
    {"run_snapshot", "run_loop", "run_emit_cancelled", "run_budget_set_step",
     "run_budget_set_task", "run_budget_emit", "run_set_in_progress",
     "run_set_running", "run_emit_current", "run_set_step_waiting",
     "run_set_task_waiting", "run_emit_approval", "retry_tool_run",
     "run_set_step_failed", "run_set_task_failed", "run_emit_failed",
     "run_memory_failure", "run_set_completed", "run_emit_completed",
     "run_set_task_completed", "run_emit_task_completed", "run_memory_goal",
     "run_memory_outcome"}

\* the frame of _plan_and_run with its `except Exception` is on the stack of
\* worker w
has_handler(w) == w = 1

\* the Store call at which worker w stands raises and writes nothing: the
\* thread goes to the except clause of _plan_and_run, or ends when there
\* is none
run_raise(w) ==
    /\ w \in DOMAIN workers
    /\ workers[w].pc \in RunStorePcs
    /\ Scheduled(w)
    /\ Cardinality(raised) < MaxFaults
    /\ raised' = raised \cup {w}
    /\ workers' = [workers EXCEPT ![w] =
                      IF has_handler(w) THEN Worker("plan_except")
                      ELSE WorkerDone]
    /\ UNCHANGED <<task, task_steps, tool_runs, task_events, memory_items,
                   pending_approval, calls, called, returned, approved,
                   creator, expired, reply, queues, inbox, reactor,
                   unpublished, streams, seen>>

\* except Exception as exc: self.store.set_task(task_id, "failed",
\* error=str(exc)), with current_step_id=None
plan_except_set_task(w) ==
    /\ AtPc(w, "plan_except")
    /\ task' = set_task(task, TaskId, "failed", 0, "exception")
    /\ Goto(w, "plan_except_emit")
    /\ UNCHANGED <<task_steps, tool_runs, task_events, memory_items,
                   pending_approval, calls, called, returned, approved,
                   creator, expired, reply, queues, inbox, reactor,
                   unpublished, streams, raised>>
    /\ Observe

\* self._emit(task_id, "task_failed", {"reason": str(exc)})
plan_except_emit(w) ==
    /\ AtPc(w, "plan_except_emit")
    /\ Emit(w, TaskId, "task_failed", Payload("none", "none", 0, "exception"))
    /\ workers' = [workers EXCEPT ![w] = WorkerDone]
    /\ UNCHANGED <<task, task_steps, tool_runs, memory_items,
                   pending_approval, calls, called, returned, approved,
                   creator, expired, reply, queues, inbox, reactor, streams,
                   raised>>
    /\ Observe

----------------------------------------------------------------------------
(* Engine.approve, Engine.deny, Engine.cancel, each on its own request     *)
(* thread (FastAPI runs the sync endpoints in a thread pool).  A request   *)
(* needs the task id, so it arrives after create_task has returned; its    *)
(* arrival is its first access to shared state.                            *)

\* Engine.pending_approval.get(task_id)
pending_of(task_id) == IF task_id = TaskId THEN pending_approval ELSE 0

\* mutant: the entry is read and left in the dictionary
pop_keeps(task_id) == pending_approval

\* the dictionary after pending_approval.pop(task_id, None)
pop(task_id) == IF task_id = TaskId THEN 0 ELSE pending_approval

CanCall(task_id) ==
    /\ task_id = TaskId => creator = "done"
    /\ called.approve + called.deny + called.cancel < MaxCalls

\* a request thread: the endpoint, its task_id, its position and its local
\* step_id
Call(kind, task_id, pc, step_id) ==
    [kind |-> kind, task_id |-> task_id, pc |-> pc, step_id |-> step_id]

AtCall(c, kind, pc) == c \in BagToSet(calls) /\ c.kind = kind /\ c.pc = pc

\* a request arrives and makes its first access
StartCall(c) ==
    /\ calls' = calls (+) SetToBag({c})
    /\ called' = [called EXCEPT ![c.kind] = @ + 1]

GotoCall(c, pc) ==
    calls' = (calls (-) SetToBag({c})) (+) SetToBag({[c EXCEPT !.pc = pc]})

\* the request returns (or raises)
EndCall(c) ==
    /\ calls' = calls (-) SetToBag({c})
    /\ returned' = [returned EXCEPT ![c.kind] = @ + 1]

\* mutant: approve goes on without a step
approve_rejects_never(step_id) == FALSE

\* `if not step_id:` in approve
approve_rejects(step_id) == step_id = 0

\* step_id = self.pending_approval.pop(task_id, None), when there is one
approve_pop(task_id) ==
    /\ CanCall(task_id)
    /\ ~approve_rejects(pending_of(task_id))
    /\ pending_approval' = pop(task_id)
    /\ approved' = approved \cup {pending_of(task_id)}
    /\ StartCall(Call("approve", task_id, "set_step", pending_of(task_id)))
    /\ UNCHANGED <<task, task_steps, tool_runs, task_events, memory_items,
                   workers, returned, creator, expired, reply, queues, inbox,
                   reactor, unpublished, streams, seen, raised>>

\* step_id = self.pending_approval.pop(task_id, None), when there is none:
\* raise HTTPException(status_code=409)
approve_reject(task_id) ==
    /\ CanCall(task_id)
    /\ approve_rejects(pending_of(task_id))
    /\ pending_approval' = pop(task_id)
    /\ called' = [called EXCEPT !.approve = @ + 1]
    /\ returned' = [returned EXCEPT !.approve = @ + 1]
    /\ UNCHANGED <<task, task_steps, tool_runs, task_events, memory_items,
                   workers, calls, approved, creator, expired, reply, queues,
                   inbox, reactor, unpublished, streams, seen, raised>>

approve_set_step(c) ==
    /\ AtCall(c, "approve", "set_step")
    /\ task_steps' = set_step(task_steps, c.step_id, "pending", "null")
    /\ GotoCall(c, "set_task")
    /\ UNCHANGED <<task, tool_runs, task_events, memory_items,
                   pending_approval, workers, called, returned, approved,
                   creator, expired, reply, queues, inbox, reactor,
                   unpublished, streams, raised>>
    /\ Observe

approve_set_task(c) ==
    /\ AtCall(c, "approve", "set_task")
    /\ task' = set_task(task, c.task_id, "running", c.step_id, "null")
    /\ GotoCall(c, "emit")
    /\ UNCHANGED <<task_steps, tool_runs, task_events, memory_items,
                   pending_approval, workers, called, returned, approved,
                   creator, expired, reply, queues, inbox, reactor,
                   unpublished, streams, raised>>
    /\ Observe

\* _emit(task_updated{running, approved_step_id}); Thread(target=self._run).start();
\* return self.store.snapshot(task_id)
approve_emit(c) ==
    /\ AtCall(c, "approve", "emit")
    /\ Emit(Len(workers) + 1, c.task_id, "task_updated",
            Payload("running", "approved_step_id", c.step_id, "null"))
    /\ workers' = Append(workers, Worker("run_snapshot"))
    /\ EndCall(c)
    /\ UNCHANGED <<task, task_steps, tool_runs, memory_items,
                   pending_approval, called, approved, creator, expired,
                   reply, queues, inbox, reactor, streams, raised>>
    /\ Observe

\* mutant: deny never marks the step
deny_has_step_never(step_id) == FALSE

\* `if step_id:` in deny
deny_has_step(step_id) == step_id # 0

\* step_id = self.pending_approval.pop(task_id, None)
deny_pop(task_id) ==
    /\ CanCall(task_id)
    /\ pending_approval' = pop(task_id)
    /\ StartCall(Call("deny", task_id,
                      IF deny_has_step(pending_of(task_id)) THEN "set_step"
                      ELSE "set_task",
                      pending_of(task_id)))
    /\ UNCHANGED <<task, task_steps, tool_runs, task_events, memory_items,
                   workers, returned, approved, creator, expired, reply,
                   queues, inbox, reactor, unpublished, streams, seen,
                   raised>>

deny_set_step(c) ==
    /\ AtCall(c, "deny", "set_step")
    /\ task_steps' = set_step(task_steps, c.step_id, "denied", "deny_reason")
    /\ GotoCall(c, "set_task")
    /\ UNCHANGED <<task, tool_runs, task_events, memory_items,
                   pending_approval, workers, called, returned, approved,
                   creator, expired, reply, queues, inbox, reactor,
                   unpublished, streams, raised>>
    /\ Observe

deny_set_task(c) ==
    /\ AtCall(c, "deny", "set_task")
    /\ task' = set_task(task, c.task_id, "failed", c.step_id, "deny_reason")
    /\ GotoCall(c, "emit")
    /\ UNCHANGED <<task_steps, tool_runs, task_events, memory_items,
                   pending_approval, workers, called, returned, approved,
                   creator, expired, reply, queues, inbox, reactor,
                   unpublished, streams, raised>>
    /\ Observe

\* _emit(task_failed{reason, step_id}); return self.store.snapshot(task_id)
deny_emit(c) ==
    /\ AtCall(c, "deny", "emit")
    /\ Emit(0, c.task_id, "task_failed",
            Payload("none", "step_id", c.step_id, "deny_reason"))
    /\ EndCall(c)
    /\ UNCHANGED <<task, task_steps, tool_runs, memory_items,
                   pending_approval, workers, called, approved, creator,
                   expired, reply, queues, inbox, reactor, streams, raised>>
    /\ Observe

\* task = self.store.get_task(task_id), when the task exists
cancel_get_task(task_id) ==
    /\ CanCall(task_id)
    /\ get_task(task, task_id) # NoTask
    /\ StartCall(Call("cancel", task_id, "pop",
                      get_task(task, task_id).current_step_id))
    /\ UNCHANGED <<task, task_steps, tool_runs, task_events, memory_items,
                   pending_approval, workers, returned, approved, creator,
                   expired, reply, queues, inbox, reactor, unpublished,
                   streams, seen, raised>>

\* task = self.store.get_task(task_id), when there is no such task:
\* raise HTTPException(status_code=404)
cancel_not_found(task_id) ==
    /\ CanCall(task_id)
    /\ get_task(task, task_id) = NoTask
    /\ called' = [called EXCEPT !.cancel = @ + 1]
    /\ returned' = [returned EXCEPT !.cancel = @ + 1]
    /\ UNCHANGED <<task, task_steps, tool_runs, task_events, memory_items,
                   pending_approval, workers, calls, approved, creator,
                   expired, reply, queues, inbox, reactor, unpublished,
                   streams, seen, raised>>

\* self.pending_approval.pop(task_id, None)
cancel_pop(c) ==
    /\ AtCall(c, "cancel", "pop")
    /\ pending_approval' = pop(c.task_id)
    /\ GotoCall(c, "set_task")
    /\ UNCHANGED <<task, task_steps, tool_runs, task_events, memory_items,
                   workers, called, returned, approved, creator, expired,
                   reply, queues, inbox, reactor, unpublished, streams, seen,
                   raised>>

\* set_task(task_id, "cancelled", current_step_id=task.get("current_step_id"))
cancel_set_task(c) ==
    /\ AtCall(c, "cancel", "set_task")
    /\ task' = set_task(task, c.task_id, "cancelled", c.step_id, "null")
    /\ calls' = (calls (-) SetToBag({c}))
                (+) SetToBag({Call("cancel", c.task_id, "emit", 0)})
    /\ UNCHANGED <<task_steps, tool_runs, task_events, memory_items,
                   pending_approval, workers, called, returned, approved,
                   creator, expired, reply, queues, inbox, reactor,
                   unpublished, streams, raised>>
    /\ Observe

\* _emit(task_updated{cancelled}); return self.store.snapshot(task_id)
cancel_emit(c) ==
    /\ AtCall(c, "cancel", "emit")
    /\ Emit(0, c.task_id, "task_updated", Payload("cancelled", "none", 0, "null"))
    /\ EndCall(c)
    /\ UNCHANGED <<task, task_steps, tool_runs, memory_items,
                   pending_approval, workers, called, approved, creator,
                   expired, reply, queues, inbox, reactor, streams, raised>>
    /\ Observe

----------------------------------------------------------------------------
(* Engine._emit after the event is stored, EventHub.publish, and the       *)
(* endpoint GET /v1/tasks/{task_id}/events.  Engine.loop is installed.     *)
(* The publish coroutines, the endpoint and its generator all run on the   *)
(* reactor, one at a time and in the order they were scheduled.  The       *)
(* generator makes the three reads of Store.snapshot without an await, so  *)
(* nothing else runs on the reactor between them; of what it reads only    *)
(* the events are followed here, so its snapshot is the step of the third  *)
(* read.                                                                   *)

\* asyncio.run_coroutine_threadsafe(self.hub.publish(task_id, event),
\* self.loop), by the thread that stored event u
emit_schedule(u) ==
    /\ u \in unpublished
    /\ Len(reactor) < MaxBacklog
    /\ unpublished' = unpublished \ {u}
    /\ reactor' = Append(reactor, [task_id |-> u.task_id, id |-> u.id])
    /\ UNCHANGED <<task, task_steps, tool_runs, task_events, memory_items,
                   pending_approval, workers, calls, called, returned,
                   approved, creator, expired, reply, queues, inbox, streams,
                   seen, raised>>

\* the reactor runs the oldest scheduled EventHub.publish
hub_publish ==
    /\ reactor # <<>>
    /\ \A q \in Handles : Len(inbox[q]) < MaxBacklog
    /\ inbox' = publish(inbox, queues, Head(reactor).task_id, Head(reactor).id)
    /\ reactor' = Tail(reactor)
    /\ UNCHANGED <<task, task_steps, tool_runs, task_events, memory_items,
                   pending_approval, workers, calls, called, returned,
                   approved, creator, expired, reply, queues, unpublished,
                   streams, seen, raised>>

\* the request arrives: `if not store.get_task(task_id): raise
\* HTTPException(404)`, then `q = await hub.subscribe(task_id)`
events_subscribe(q, task_id) ==
    /\ streams[q].pc = "idle"
    /\ IF get_task(task, task_id) = NoTask
       THEN /\ streams' = [streams EXCEPT ![q].pc = "closed",
                                          ![q].task_id = task_id]
            /\ queues' = queues
       ELSE /\ streams' = [streams EXCEPT ![q].pc = "subscribed",
                                          ![q].task_id = task_id]
            /\ queues' = subscribe(queues, task_id, q)
    /\ UNCHANGED <<task, task_steps, tool_runs, task_events, memory_items,
                   pending_approval, workers, calls, called, returned,
                   approved, creator, expired, reply, inbox, reactor,
                   unpublished, seen, raised>>

\* the generator starts: store.snapshot(task_id), with
\* SELECT * FROM task_events WHERE task_id=? ORDER BY id ASC, and the
\* snapshot message is yielded
events_snapshot(q) ==
    /\ streams[q].pc = "subscribed"
    /\ streams' = [streams EXCEPT
                      ![q].pc = "streaming",
                      ![q].events = snapshot_events(task_events, streams[q].task_id),
                      ![q].sent = <<0>>]
    /\ UNCHANGED <<task, task_steps, tool_runs, task_events, memory_items,
                   pending_approval, workers, calls, called, returned,
                   approved, creator, expired, reply, queues, inbox, reactor,
                   unpublished, seen, raised>>

\* event = await q.get(); yield it
events_forward(q) ==
    /\ streams[q].pc = "streaming"
    /\ inbox[q] # <<>>
    /\ streams' = [streams EXCEPT ![q].sent = Append(@, Head(inbox[q]))]
    /\ inbox' = [inbox EXCEPT ![q] = Tail(@)]
    /\ UNCHANGED <<task, task_steps, tool_runs, task_events, memory_items,
                   pending_approval, workers, calls, called, returned,
                   approved, creator, expired, reply, queues, reactor,
                   unpublished, seen, raised>>

\* the client disconnects: CancelledError in q.get(), and
\* `finally: await hub.unsubscribe(task_id, q)`
events_disconnect(q) ==
    /\ streams[q].pc = "streaming"
    /\ streams' = [streams EXCEPT ![q].pc = "closed"]
    /\ queues' = unsubscribe(queues, streams[q].task_id, q)
    /\ UNCHANGED <<task, task_steps, tool_runs, task_events, memory_items,
                   pending_approval, workers, calls, called, returned,
                   approved, creator, expired, reply, inbox, reactor,
                   unpublished, seen, raised>>

StreamStep(q) ==
    \/ events_subscribe(q, TaskId)
    \/ events_snapshot(q)
    \/ events_forward(q)
    \/ events_disconnect(q)

WorkerIds == 1..(MaxCalls + 1)

WorkerStep(w) ==
    \/ plan_set_planning(w)
    \/ plan_emit_planning(w)
    \/ plan_add_steps(w)
    \/ plan_set_running(w)
    \/ plan_emit_running(w)
    \/ run_snapshot(w)
    \/ run_loop(w)
    \/ run_emit_cancelled(w)
    \/ run_budget_set_step(w)
    \/ run_budget_set_task(w)
    \/ run_budget_emit(w)
    \/ run_set_in_progress(w)
    \/ run_set_running(w)
    \/ run_emit_current(w)
    \/ run_set_step_waiting(w)
    \/ run_set_task_waiting(w)
    \/ run_set_pending(w)
    \/ run_emit_approval(w)
    \/ retry_invoke(w)
    \/ retry_tool_run(w)
    \/ run_set_step_failed(w)
    \/ run_set_task_failed(w)
    \/ run_emit_failed(w)
    \/ run_memory_failure(w)
    \/ run_set_completed(w)
    \/ run_emit_completed(w)
    \/ run_set_task_completed(w)
    \/ run_emit_task_completed(w)
    \/ run_memory_goal(w)
    \/ run_memory_outcome(w)

CallStep(c) ==
    \/ approve_set_step(c)
    \/ approve_set_task(c)
    \/ approve_emit(c)
    \/ deny_set_step(c)
    \/ deny_set_task(c)
    \/ deny_emit(c)
    \/ cancel_pop(c)
    \/ cancel_set_task(c)
    \/ cancel_emit(c)

Next ==
    \/ create_task_store(Goals, MaxStepsChoices)
    \/ create_task_emit
    \/ create_task_snapshot
    \/ approve_pop(TaskId)
    \/ approve_reject(TaskId)
    \/ deny_pop(TaskId)
    \/ cancel_get_task(TaskId)
    \/ \E w \in WorkerIds : WorkerStep(w)
    \/ \E c \in BagToSet(calls) : CallStep(c)

Spec == Init /\ [][Next]_vars

\* the steps of the thread that serves POST /tasks
CreateStep ==
    \/ create_task_store(Goals, MaxStepsChoices)
    \/ create_task_emit
    \/ create_task_snapshot

\* the engine with every request, where every thread that has a step to
\* take takes it in the end: the request threads and the workers are
\* operating-system threads, every Store call and every tool call returns.
\* Whether and when a request arrives is up to the clients.
SpecFair ==
    /\ Init
    /\ [][Next]_vars
    /\ WF_vars(CreateStep)
    /\ \A w \in WorkerIds : WF_vars(WorkerStep(w))
    /\ WF_vars(\E c \in BagToSet(calls) : CallStep(c))

----------------------------------------------------------------------------
(* Requests that name a task id no task has.  They can arrive at any time; *)
(* the task of the model is created and planned meanwhile.  deny makes the *)
(* same calls as for a known id: the pop finds nothing, so set_step is     *)
(* skipped, then set_task, _emit, and Store.snapshot, which raises         *)
(* KeyError.                                                               *)

PlanStep(w) ==
    \/ plan_set_planning(w)
    \/ plan_emit_planning(w)
    \/ plan_add_steps(w)
    \/ plan_set_running(w)
    \/ plan_emit_running(w)

UnknownCallStep(c) ==
    \/ deny_set_task(c)
    \/ deny_emit(c)

NextUnknown ==
    \/ create_task_store(Goals, MaxStepsChoices)
    \/ create_task_emit
    \/ create_task_snapshot
    \/ approve_reject(UnknownId)
    \/ deny_pop(UnknownId)
    \/ cancel_not_found(UnknownId)
    \/ \E w \in WorkerIds : PlanStep(w)
    \/ \E c \in BagToSet(calls) : UnknownCallStep(c)

SpecUnknown == Init /\ [][NextUnknown]_vars

----------------------------------------------------------------------------
(* The planner under every goal of PlannerGoals and every max_steps a      *)
(* request can carry: one task is created, planned and run by its worker,  *)
(* with no approve, deny or cancel request.                                *)

RunStep(w) ==
    \/ run_snapshot(w)
    \/ run_loop(w)
    \/ run_budget_set_step(w)
    \/ run_budget_set_task(w)
    \/ run_budget_emit(w)
    \/ run_set_in_progress(w)
    \/ run_set_running(w)
    \/ run_emit_current(w)
    \/ run_set_step_waiting(w)
    \/ run_set_task_waiting(w)
    \/ run_set_pending(w)
    \/ run_emit_approval(w)
    \/ retry_invoke(w)
    \/ retry_tool_run(w)
    \/ run_set_step_failed(w)
    \/ run_set_task_failed(w)
    \/ run_emit_failed(w)
    \/ run_memory_failure(w)
    \/ run_set_completed(w)
    \/ run_emit_completed(w)
    \/ run_set_task_completed(w)
    \/ run_emit_task_completed(w)
    \/ run_memory_goal(w)
    \/ run_memory_outcome(w)

NextPlanner ==
    \/ create_task_store(PlannerGoals, MinMaxSteps..MaxMaxSteps)
    \/ create_task_emit
    \/ create_task_snapshot
    \/ \E w \in WorkerIds : PlanStep(w)
    \/ \E w \in WorkerIds : RunStep(w)

SpecPlanner == Init /\ [][NextPlanner]_vars

----------------------------------------------------------------------------
(* Engine.create_task against the worker thread it has started: the three  *)
(* reads of its snapshot interleave with the planning and the run.         *)

NextCreate ==
    \/ create_task_store(Goals, MaxStepsChoices)
    \/ create_task_emit
    \/ create_task_read_task
    \/ create_task_read_steps
    \/ create_task_read_events
    \/ \E w \in WorkerIds : PlanStep(w)
    \/ \E w \in WorkerIds : RunStep(w)

SpecCreate == Init /\ [][NextCreate]_vars

----------------------------------------------------------------------------
(* One task and no approve, deny or cancel request, under fair scheduling: *)
(* the request thread and the worker thread are operating-system threads,  *)
(* each of which runs again as long as it has a step to take; every tool   *)
(* call returns (each has a timeout).                                      *)

CreatorStep ==
    \/ create_task_store(PlannerGoals, MaxStepsChoices)
    \/ create_task_emit
    \/ create_task_snapshot

NextLive ==
    \/ CreatorStep
    \/ \E w \in WorkerIds : PlanStep(w)
    \/ \E w \in WorkerIds : RunStep(w)

\* the steps of a worker whose plan has a high-risk step, which it never
\* gets past
RunToGate(w) ==
    \/ run_snapshot(w)
    \/ run_loop(w)
    \/ run_emit_cancelled(w)
    \/ run_budget_set_step(w)
    \/ run_budget_set_task(w)
    \/ run_budget_emit(w)
    \/ run_set_in_progress(w)
    \/ run_set_running(w)
    \/ run_emit_current(w)
    \/ run_set_step_waiting(w)
    \/ run_set_task_waiting(w)
    \/ run_set_pending(w)
    \/ run_emit_approval(w)
    \/ retry_invoke(w)
    \/ retry_tool_run(w)
    \/ run_set_step_failed(w)
    \/ run_set_task_failed(w)
    \/ run_emit_failed(w)
    \/ run_memory_failure(w)
    \/ run_set_completed(w)
    \/ run_emit_completed(w)

\* the engine with every request, for the goal with two high-risk steps
NextGated ==
    \/ create_task_store(GatedGoals, MaxStepsChoices)
    \/ create_task_emit
    \/ create_task_snapshot
    \/ approve_pop(TaskId)
    \/ approve_reject(TaskId)
    \/ deny_pop(TaskId)
    \/ cancel_get_task(TaskId)
    \/ \E w \in WorkerIds : PlanStep(w) \/ RunToGate(w)
    \/ \E c \in BagToSet(calls) : CallStep(c)

SpecGated == Init /\ [][NextGated]_vars

SpecLive ==
    /\ Init
    /\ [][NextLive]_vars
    /\ WF_vars(CreatorStep)
    /\ \A w \in WorkerIds : WF_vars(PlanStep(w) \/ RunStep(w))

----------------------------------------------------------------------------
(* One task and approve requests for it, where one Store call of _run      *)
(* raises.                                                                 *)

ApproveStep(c) ==
    \/ approve_set_step(c)
    \/ approve_set_task(c)
    \/ approve_emit(c)

ExceptStep(w) ==
    \/ run_raise(w)
    \/ plan_except_set_task(w)
    \/ plan_except_emit(w)

NextRaise ==
    \/ create_task_store(Goals, MaxStepsChoices)
    \/ create_task_emit
    \/ create_task_snapshot
    \/ approve_pop(TaskId)
    \/ approve_reject(TaskId)
    \/ \E w \in WorkerIds : PlanStep(w) \/ RunStep(w) \/ ExceptStep(w)
    \/ \E c \in BagToSet(calls) : ApproveStep(c)

SpecRaise == Init /\ [][NextRaise]_vars

----------------------------------------------------------------------------
(* One task, run by its worker with no approve, deny or cancel request,    *)
(* and one event-stream request for it, which can arrive at any time.      *)

InitStream ==
    /\ task = NoTask
    /\ task_steps = <<>>
    /\ tool_runs = <<>>
    /\ task_events = <<>>
    /\ memory_items = {}
    /\ pending_approval = 0
    /\ workers = <<>>
    /\ calls = EmptyBag
    /\ called = NoCalls
    /\ returned = NoCalls
    /\ approved = {}
    /\ creator = "create_task"
    /\ expired = FALSE
    /\ reply = NoSnapshot
    /\ queues = NoQueues
    /\ inbox = [q \in Handles |-> <<>>]
    /\ reactor = <<>>
    /\ unpublished = {}
    /\ streams = [q \in Handles |-> IF q = "q1" THEN Stream("idle") ELSE Stream("off")]
    /\ seen = {}
    /\ raised = {}

NextStream ==
    \/ create_task_store(Goals, MaxStepsChoices)
    \/ create_task_emit
    \/ create_task_snapshot
    \/ \E w \in WorkerIds : PlanStep(w) \/ RunStep(w)
    \/ \E u \in unpublished : emit_schedule(u)
    \/ hub_publish
    \/ \E q \in Handles : StreamStep(q)

SpecStream == InitStream /\ [][NextStream]_vars

----------------------------------------------------------------------------
(* One task, one cancel request for it, and one event-stream request whose *)
(* client stays connected: the worker thread and the request thread of     *)
(* cancel emit events of the same task.                                    *)

\* a goal whose plan is git_status, git_push (high risk), summarize_task
StreamGoals == { <<"push", "latest", "changes">> }

\* number of cancel requests made in one behaviour with an event stream
MaxCancels == 1

CancelStep(c) ==
    \/ cancel_pop(c)
    \/ cancel_set_task(c)
    \/ cancel_emit(c)

ConnectedStep(q) ==
    \/ events_subscribe(q, TaskId)
    \/ events_snapshot(q)
    \/ events_forward(q)

NextCancel ==
    \/ create_task_store(StreamGoals, MaxStepsChoices)
    \/ create_task_emit
    \/ create_task_snapshot
    \/ called.cancel < MaxCancels /\ cancel_get_task(TaskId)
    \/ \E w \in WorkerIds : PlanStep(w) \/ RunToGate(w)
    \/ \E c \in BagToSet(calls) : CancelStep(c)
    \/ \E u \in unpublished : emit_schedule(u)
    \/ hub_publish
    \/ \E q \in Handles : ConnectedStep(q)

SpecCancel == InitStream /\ [][NextCancel]_vars

----------------------------------------------------------------------------
(* The EventHub alone: handles subscribed to either task id, read and      *)
(* unsubscribed in any order, while events of either task id are stored    *)
(* and published.                                                          *)

MaxPublish == 3

InitHub ==
    /\ task = NoTask
    /\ task_steps = <<>>
    /\ tool_runs = <<>>
    /\ task_events = <<>>
    /\ memory_items = {}
    /\ pending_approval = 0
    /\ workers = <<>>
    /\ calls = EmptyBag
    /\ called = NoCalls
    /\ returned = NoCalls
    /\ approved = {}
    /\ creator = "create_task"
    /\ expired = FALSE
    /\ reply = NoSnapshot
    /\ queues = NoQueues
    /\ inbox = [q \in Handles |-> <<>>]
    /\ reactor = <<>>
    /\ unpublished = {}
    /\ streams = [q \in Handles |-> Stream("idle")]
    /\ seen = {}
    /\ raised = {}

\* q = await hub.subscribe(task_id), q a new asyncio.Queue
hub_subscribe(q, task_id) ==
    /\ streams[q].pc = "idle"
    /\ streams' = [streams EXCEPT ![q].pc = "streaming", ![q].task_id = task_id]
    /\ queues' = subscribe(queues, task_id, q)
    /\ UNCHANGED <<task, task_steps, tool_runs, task_events, memory_items,
                   pending_approval, workers, calls, called, returned,
                   approved, creator, expired, reply, inbox, reactor,
                   unpublished, seen, raised>>

\* Engine._emit(task_id, ...) by some thread
hub_emit(task_id) ==
    /\ Len(task_events) < MaxPublish
    /\ Emit(0, task_id, "task_updated", Payload("running", "none", 0, "null"))
    /\ UNCHANGED <<task, task_steps, tool_runs, memory_items,
                   pending_approval, workers, calls, called, returned,
                   approved, creator, expired, reply, queues, inbox, reactor,
                   streams, raised>>
    /\ Observe

NextHub ==
    \/ \E q \in Handles, task_id \in {TaskId, UnknownId} : hub_subscribe(q, task_id)
    \/ \E q \in Handles : events_forward(q)
    \/ \E q \in Handles : events_disconnect(q)
    \/ \E task_id \in {TaskId, UnknownId} : hub_emit(task_id)
    \/ \E u \in unpublished : emit_schedule(u)
    \/ hub_publish

SpecHub == InitHub /\ [][NextHub]_vars

----------------------------------------------------------------------------
(* Properties.                                                             *)

Terminal == {"completed", "failed", "cancelled"}

\* the tool_run rows of a step, in insertion order
RunsOf(step_id) == SelectSeq(tool_runs, LAMBDA r : r.step_id = step_id)

\* steps an approve call has taken out of pending_approval
ApprovedSteps == approved

CancelCalled == called.cancel > 0

CancelReturned == returned.cancel > 0

DenyCalled == called.deny > 0

\* no thread is running: every worker and every request has returned
Quiescent ==
    /\ creator = "done"
    /\ \A w \in DOMAIN workers : workers[w].pc = "done"
    /\ calls = EmptyBag

\* the number of task_failed events in the log
FailedEvents(rows) ==
    Len(SelectSeq(rows, LAMBDA e : e.event_type = "task_failed"))

\* a worker is inside ToolRunner.run
InTool(w) == workers[w].pc = "retry_tool_run"

\* C1: once the task's status is completed, failed or cancelled, it never
\* changes again.
C1_TerminalStatusIsFinal ==
    [][task.status \in Terminal => task'.status = task.status]_vars

\* C2: a tool_run row of a high-risk step exists only if an approve call has
\* taken that step out of pending_approval.
C2_HighRiskRunsOnlyAfterApprove ==
    \A i \in DOMAIN tool_runs :
        task_steps[tool_runs[i].step_id].risk_level = "high"
            => tool_runs[i].step_id \in ApprovedSteps

\* C2 witness: the worker reached a high-risk step that nobody approved and
\* left it waiting for approval without a tool_run.
C2_Witness ==
    \E s \in DOMAIN task_steps :
        /\ task_steps[s].risk_level = "high"
        /\ task_steps[s].status = "waiting_approval"
        /\ pending_approval = s
        /\ s \notin ApprovedSteps
        /\ RunsOf(s) = <<>>
        /\ \A w \in DOMAIN workers : workers[w].pc = "done"

\* C3: after approve(task_id) took high-risk step S out of pending_approval,
\* with no cancel or deny, the budget not exceeded and every tool returning
\* ok, the tool of S is run exactly once and the task ends completed (or
\* waits on a later step): stated for the moment every thread has returned.
C3_ApprovedStepRunsOnce ==
    (Quiescent /\ ~CancelCalled /\ ~DenyCalled /\ ~expired
        /\ \A i \in DOMAIN tool_runs : tool_runs[i].ok)
    => \A s \in ApprovedSteps :
          /\ Len(RunsOf(s)) = 1
          /\ \/ task.status = "completed"
             \/ task.status = "waiting_approval" /\ pending_approval > s

\* C4: once a cancel call has returned, no task_failed event is appended
\* (in runs without a deny call, whose own task_failed is not the worker's).
C4_NoTaskFailedAfterCancel ==
    [][(CancelReturned /\ ~DenyCalled)
          => FailedEvents(task_events') = FailedEvents(task_events)]_vars

\* C5: once a cancel call has returned, no worker starts a ToolRunner call.
C5_NoToolStartsAfterCancel ==
    [][CancelReturned =>
          \A w \in DOMAIN workers : InTool(w)' => InTool(w)]_vars

\* C6: once the task is in a terminal status, its goal, current_step_id and
\* error do not change.
C6_TerminalTaskIsFrozen ==
    [][task.status \in Terminal =>
          /\ task'.goal = task.goal
          /\ task'.current_step_id = task.current_step_id
          /\ task'.error = task.error]_vars

\* the transitions of the table in section 4.5 of the specification
ValidTransitions ==
    { <<"queued", "planning">>, <<"planning", "running">>,
      <<"planning", "failed">>, <<"running", "failed">>,
      <<"running", "waiting_approval">>, <<"running", "completed">>,
      <<"running", "cancelled">>, <<"waiting_approval", "cancelled">>,
      <<"waiting_approval", "running">>, <<"waiting_approval", "failed">> }

\* C7: every change of the task's persisted status is one of the listed
\* transitions.
C7_OnlyListedTransitions ==
    [][(task.status # "none" /\ task'.status # task.status)
          => <<task.status, task'.status>> \in ValidTransitions]_vars

\* C8: no step has more than 2 tool_run rows.
C8_AtMostTwoRunsPerStep ==
    \A s \in DOMAIN task_steps : Len(RunsOf(s)) <= 2

\* C8 witness: a step was tried twice, and a worker started by approve has
\* walked the whole step list again and returned.
C8_Witness ==
    /\ \E s \in DOMAIN task_steps : Len(RunsOf(s)) = 2
    /\ ApprovedSteps # {}
    /\ Len(workers) >= 2
    /\ \A w \in DOMAIN workers : workers[w].pc = "done"

\* C9: a step with status completed has a tool_run, and its most recent
\* tool_run has result.ok = true.
C9_CompletedStepHasOkRun ==
    \A s \in DOMAIN task_steps :
        task_steps[s].status = "completed"
            => /\ RunsOf(s) # <<>>
               /\ RunsOf(s)[Len(RunsOf(s))].ok

\* C9 witness: a step completed on its second attempt.
C9_Witness ==
    \E s \in DOMAIN task_steps :
        /\ task_steps[s].status = "completed"
        /\ Len(RunsOf(s)) = 2
        /\ ~RunsOf(s)[1].ok

\* C10: a tool_run of step j is recorded only when every step with a smaller
\* index has status completed, and the tool_runs are in non-decreasing
\* step_index order.
C10_StepsRunInOrder ==
    [][Len(tool_runs') > Len(tool_runs) =>
          LET j == tool_runs'[Len(tool_runs')].step_id
          IN  /\ \A k \in DOMAIN task_steps :
                    k < j => task_steps[k].status = "completed"
              /\ \A i \in DOMAIN tool_runs : tool_runs[i].step_id <= j]_vars

\* C10 witness: the second step ran after the first needed two attempts.
C10_Witness ==
    /\ Len(tool_runs) = 3
    /\ tool_runs[1].step_id = 1
    /\ tool_runs[2].step_id = 1
    /\ tool_runs[3].step_id = 2

\* the event says that step S is the step being run
ReportsCurrent(e, S) ==
    /\ e.event_type = "task_updated"
    /\ e.payload.key = "current_step_id"
    /\ e.payload.step_id = S

\* the event says that step S was completed
ReportsCompleted(e, S) ==
    /\ e.event_type = "task_updated"
    /\ e.payload.key = "completed_step_id"
    /\ e.payload.step_id = S

\* the event says that step S failed or awaits approval
ReportsFailedOrWaiting(e, S) ==
    /\ e.event_type \in {"task_failed", "approval_requested"}
    /\ e.payload.key = "step_id"
    /\ e.payload.step_id = S

\* C11: every task_updated{completed_step_id=S} in the event log has exactly
\* one task_updated{current_step_id=S} before it, and no later event reports
\* S as current, failed or awaiting approval.
C11_CompletedStepIsNotContradicted ==
    \A i \in DOMAIN task_events, S \in DOMAIN task_steps :
        ReportsCompleted(task_events[i], S) =>
            /\ Cardinality({j \in 1..(i - 1) :
                               ReportsCurrent(task_events[j], S)}) = 1
            /\ \A k \in (i + 1)..Len(task_events) :
                  /\ ~ReportsCurrent(task_events[k], S)
                  /\ ~ReportsFailedOrWaiting(task_events[k], S)

\* the last row of the event log
LastEvent(rows) == rows[Len(rows)]

\* C12: when a deny call that took step S out of pending_approval returns (no
\* cancel call being made), S is denied with the reason as output, the task
\* is failed with the reason as error, nothing is pending and the call's last
\* act was to emit task_failed for S; and no tool_run is recorded for a
\* denied step.
C12_DenyFailsStepAndTask ==
    [][/\ \A c \in BagToSet(calls) :
             (/\ c.kind = "deny" /\ c.pc = "emit" /\ c.step_id # 0
              /\ calls' = calls (-) SetToBag({c})
              /\ ~CancelCalled)
             => /\ task_steps'[c.step_id].status = "denied"
                /\ task_steps'[c.step_id].output = "deny_reason"
                /\ task'.status = "failed"
                /\ task'.error = "deny_reason"
                /\ pending_approval' = 0
                /\ LastEvent(task_events').event_type = "task_failed"
                /\ LastEvent(task_events').payload.step_id = c.step_id
                /\ LastEvent(task_events').payload.reason = "deny_reason"
       /\ \A s \in DOMAIN task_steps :
             task_steps[s].status = "denied" => RunsOf(s)' = RunsOf(s)]_vars

\* C12 witness: a deny call has returned and left the step it took denied
\* and the task failed.
C12_Witness ==
    /\ returned.deny > 0
    /\ ~CancelCalled
    /\ \E s \in DOMAIN task_steps :
          /\ task_steps[s].status = "denied"
          /\ task_steps[s].risk_level = "high"
          /\ RunsOf(s) = <<>>
    /\ task.status = "failed"
    /\ task.error = "deny_reason"
    /\ pending_approval = 0

\* C13: an approve call that arrives when no step is awaiting approval is
\* rejected at once (409): it leaves no request thread behind, writes no task,
\* step, tool_run, event or memory row, leaves pending_approval alone and
\* starts no worker.
C13_ApproveWithoutPendingChangesNothing ==
    [][(called'.approve > called.approve /\ pending_approval = 0)
          => /\ returned'.approve = returned.approve + 1
             /\ calls' = calls
             /\ UNCHANGED <<task, task_steps, tool_runs, task_events,
                            memory_items, pending_approval, workers,
                            approved>>]_vars

\* C13 witness: an approve call was rejected while the task was running its
\* first step, and the worker went on.
C13_Witness ==
    /\ returned.approve > 0
    /\ approved = {}
    /\ Len(workers) = 1
    /\ task.status = "running"
    /\ Len(tool_runs) > 0

\* a deny or cancel request thread takes a step: it arrives, moves or returns
DenyOrCancelStep ==
    \/ called'.deny # called.deny
    \/ called'.cancel # called.cancel
    \/ \E c \in BagToSet(calls) :
          c.kind \in {"deny", "cancel"} /\ CopiesIn(c, calls') < CopiesIn(c, calls)

\* C14: a deny or cancel call for a task id that no task has writes nothing
\* to the Store: no step it takes, from its arrival to its return, creates or
\* modifies a task row, step row, event row, tool_run row or memory row.
\* (Under SpecUnknown every request names such an id.)
C14_UnknownIdLeavesStoreUnchanged ==
    [][DenyOrCancelStep
          => UNCHANGED <<task, task_steps, task_events, tool_runs,
                         memory_items>>]_vars

\* the terminal statuses of a step
StepTerminal == {"completed", "failed", "denied"}

\* C15: a step whose status is completed, failed or denied never changes
\* status again (so the step marked failed when the budget is found exceeded
\* is never an already completed one).
C15_TerminalStepStatusIsFinal ==
    [][\A s \in DOMAIN task_steps :
          task_steps[s].status \in StepTerminal
              => task_steps'[s].status = task_steps[s].status]_vars

\* C16: when a worker finds the time budget exceeded at a step boundary, it
\* takes the budget branch: it sets the task failed with error "Time budget
\* exceeded" and the step as current step, its last act is to emit
\* task_failed with that reason, and from the finding on no tool is invoked
\* and no tool_run is recorded.
C16_BudgetExceededFailsTask ==
    [][/\ (~expired /\ expired')
             => \E w \in DOMAIN workers :
                   /\ AtPc(w, "run_loop")
                   /\ workers'[w].pc = "run_budget_set_step"
       /\ \A w \in DOMAIN workers :
             /\ (AtPc(w, "run_budget_set_task") /\ workers'[w] # workers[w])
                   => /\ task'.status = "failed"
                      /\ task'.error = "Time budget exceeded"
                      /\ task'.current_step_id = StepId(w)
             /\ (AtPc(w, "run_budget_emit") /\ workers'[w] # workers[w])
                   => /\ LastEvent(task_events').event_type = "task_failed"
                      /\ LastEvent(task_events').payload.reason
                            = "Time budget exceeded"
                      /\ workers'[w].pc = "done"
       /\ expired'
             => /\ tool_runs' = tool_runs
                /\ \A w \in DOMAIN workers' :
                      workers'[w].pc \notin {"retry_invoke", "retry_tool_run"}]_vars

\* C16 witness: the budget was found exceeded at the boundary before step 2;
\* the task is failed for it, step 2 and the later steps have no tool_run.
C16_Witness ==
    /\ expired
    /\ task.status = "failed"
    /\ task.error = "Time budget exceeded"
    /\ task.current_step_id = 2
    /\ LastEvent(task_events).event_type = "task_failed"
    /\ task_steps[1].status = "completed"
    /\ task_steps[2].status = "failed"
    /\ \A i \in DOMAIN tool_runs : tool_runs[i].step_id = 1
    /\ \A w \in DOMAIN workers : workers[w].pc = "done"

\* worker w takes the step
Moves(w) == w \in DOMAIN workers /\ workers'[w] # workers[w]

\* C17: retry policy of one execution of a step.  Every attempt (and nothing
\* else) appends exactly one tool_run, with the result of that attempt; a
\* second attempt follows exactly when the first returned ok=false with
\* transient=true, and there is no third; the output persisted with the step
\* is the result of the last attempt, completed for ok and failed otherwise.
C17_RetryPolicy ==
    [][/\ \A w \in DOMAIN workers :
             /\ (InTool(w) /\ Moves(w))
                   => LET r == workers'[w].result
                          a == workers[w].attempt
                      IN  /\ tool_runs' = tool_run(tool_runs, StepId(w), r)
                          /\ a \in {0, 1}
                          /\ (workers'[w].pc = "retry_invoke")
                                <=> (a = 0 /\ ~r.ok /\ r.transient)
                          /\ (workers'[w].pc = "retry_invoke")
                                => workers'[w].attempt = 1
                          /\ (workers'[w].pc = "run_set_completed") <=> r.ok
                          /\ Step(w).risk_level # "high"
             /\ (workers[w].pc \in {"run_set_completed", "run_set_step_failed"}
                 /\ Moves(w))
                   => LET runs == RunsOf(StepId(w))
                          last == runs[Len(runs)]
                      IN  /\ last.ok = workers[w].result.ok
                          /\ task_steps'[StepId(w)].output = output_of(last)
                          /\ task_steps'[StepId(w)].status =
                                IF last.ok THEN "completed" ELSE "failed"
       /\ tool_runs' # tool_runs
             => \E w \in DOMAIN workers : InTool(w) /\ Moves(w)]_vars

\* C17 witness: a transient failure followed by ok left the step completed,
\* with the ok result as output and exactly two tool_run rows.
C17_Witness ==
    \E s \in DOMAIN task_steps :
        /\ task_steps[s].status = "completed"
        /\ task_steps[s].output = "ok_result"
        /\ Len(RunsOf(s)) = 2
        /\ ~RunsOf(s)[1].ok
        /\ RunsOf(s)[2].ok
        /\ \A w \in DOMAIN workers : workers[w].result = NoResult

\* what identifies the rows of task_steps: in insertion order, the
\* step_index and the tool of each
StepRows(rows) == [i \in 1..Len(rows) |-> <<rows[i].step_index, rows[i].tool_name>>]

\* C18: the persisted steps of the task have step_index 1..n in insertion
\* order, without gap or duplicate, and once steps are persisted the set of
\* steps does not change.
C18_StepIndexContiguous ==
    [][/\ \A i \in 1..Len(task_steps') : task_steps'[i].step_index = i
       /\ task_steps # <<>> => StepRows(task_steps') = StepRows(task_steps)]_vars

\* C18 witness: the plan with all eight tools was persisted and the worker
\* has run it up to the step that needs approval.
C18_Witness ==
    /\ Len(task_steps) = 8
    /\ task.status = "waiting_approval"
    /\ task_steps[5].status = "completed"
    /\ task_steps[6].status = "waiting_approval"

\* C19: for every goal and every max_steps, the planner returns between 1 and
\* max_steps steps and none of the three planning errors is raised: the
\* worker never enters the except clause of _plan_and_run.
C19_PlanLengthWithinMaxSteps ==
    /\ task.status # "none" =>
          LET steps == plan(task.goal, task.max_steps)
          IN  /\ Len(steps) >= 1
              /\ Len(steps) <= task.max_steps
              /\ planning_error(steps, task.max_steps) = "none"
    /\ \A w \in DOMAIN workers : workers[w].pc # "plan_except"
    /\ task_steps # <<>> => Len(task_steps) \in 1..task.max_steps

\* C19 witness: a plan of seven tools and the summary was cut to max_steps = 2
\* and persisted.
C19_Witness ==
    /\ task.max_steps = MinMaxSteps
    /\ Len(task.goal) = 7
    /\ Len(task_steps) = 2
    /\ task.status = "running"

\* C20: the last persisted step of the task is summarize_task.
C20_LastStepIsSummarize ==
    task_steps # <<>> =>
        task_steps[Len(task_steps)].tool_name = "summarize_task"

\* the eight tools of Planner.plan in the order of its add calls
PlanOrder ==
    <<"git_status", "generate_readme", "write_file", "run_tests",
      "git_commit", "git_push", "github_create_repo", "summarize_task">>

Pos(tool_name) == CHOOSE i \in 1..Len(PlanOrder) : PlanOrder[i] = tool_name

\* the goal has one of the words
HasWord(goal, words) == \E i \in 1..Len(goal) : goal[i] \in words

\* the trigger of each tool, read on the words of the goal
Triggered(goal, tool_name) ==
    CASE tool_name = "generate_readme" -> HasWord(goal, {"README", "README.md"})
      [] tool_name = "write_file" ->
            /\ HasWord(goal, {"README.md", "notes.txt"})
            /\ HasWord(goal, {"create", "write", "generate", "make"})
      [] tool_name = "run_tests" -> HasWord(goal, {"test", "tests", "pytest"})
      [] tool_name = "git_commit" -> HasWord(goal, {"commit"})
      [] tool_name = "git_push" -> HasWord(goal, {"push", "publish"})
      [] tool_name = "github_create_repo" ->
            \E i \in 1..(Len(goal) - 1) :
                goal[i] = "create" /\ goal[i + 1] \in {"repo", "repository"}
      [] OTHER -> TRUE

C22_CreateSnapshotQueuedOrPlanning ==
    creator = "done" => reply.task.status \in {"queued", "planning"}

\* C23: the snapshot Engine.create_task returns contains the task and at
\* least one step.
C23_CreateSnapshotHasSteps ==
    creator = "done" => /\ reply.task.id = TaskId
                        /\ Len(reply.steps) >= 1

\* the persisted plan has a high-risk step
HighStepPlanned == \E s \in DOMAIN task_steps : task_steps[s].risk_level = "high"

\* the first high-risk step of the plan
FirstHighStep ==
    CHOOSE s \in DOMAIN task_steps :
        /\ task_steps[s].risk_level = "high"
        /\ \A k \in 1..(s - 1) : task_steps[k].risk_level # "high"

\* a step has failed: its tool failed on the last attempt, or the worker
\* found the time budget exceeded
StepFailed ==
    expired \/ \E s \in DOMAIN task_steps : task_steps[s].status = "failed"

\* the task waits for the approval of its first high-risk step
WaitsForFirstHighStep ==
    /\ HighStepPlanned
    /\ task.status = "waiting_approval"
    /\ pending_approval = FirstHighStep
    /\ task_steps[FirstHighStep].status = "waiting_approval"

\* C24: with no cancel and no deny, a task whose plan has a high-risk step
\* reaches waiting_approval with that step in pending_approval, unless a tool
\* of an earlier step fails or the time budget is exceeded; and unless one of
\* these happens its status is never completed, failed or cancelled.
C24_HighRiskStepWaits ==
    /\ HighStepPlanned ~> (WaitsForFirstHighStep \/ StepFailed)
    /\ []((HighStepPlanned /\ ~StepFailed) => task.status \notin Terminal)

\* C24 witness: three steps completed, one of them on its second attempt,
\* and the task waits for the approval of the fourth.
C24_Witness ==
    /\ WaitsForFirstHighStep
    /\ ~StepFailed
    /\ FirstHighStep = 4
    /\ Len(tool_runs) = 4
    /\ \A w \in DOMAIN workers : workers[w].pc = "done"

\* C29: the persisted output of a step is non-null exactly when its status is
\* completed, failed, denied or waiting_approval.
C29_OutputIffTerminalOrWaiting ==
    \A s \in DOMAIN task_steps :
        (task_steps[s].output # "null")
            <=> (task_steps[s].status \in
                    {"completed", "failed", "denied", "waiting_approval"})

\* the steps of the task that await approval
WaitingSteps ==
    {s \in DOMAIN task_steps : task_steps[s].status = "waiting_approval"}

\* C28: at every instant at most one step of the task has status
\* waiting_approval, and pending_approval holds no step id or the id of one
\* step of the task.
C28_AtMostOnePendingApproval ==
    /\ Cardinality(WaitingSteps) <= 1
    /\ pending_approval \in {0} \cup DOMAIN task_steps

\* C28 witness: in a plan with two high-risk steps the first was approved and
\* awaits approval again, with its id pending, while the second has not been
\* reached.
C28_Witness ==
    /\ approved = {2}
    /\ WaitingSteps = {2}
    /\ pending_approval = 2
    /\ task_steps[3].risk_level = "high"
    /\ task_steps[3].status = "pending"
    /\ Len(workers) = 2
    /\ \A w \in DOMAIN workers : workers[w].pc = "done"


\* the elements of a sequence
Range(f) == {f[i] : i \in DOMAIN f}

\* the ids of the events whose publish is not done yet
OnTheWay ==
    {u.id : u \in unpublished} \cup {e.id : e \in Range(reactor)}

\* the event-stream request on handle q is connected and has sent its
\* snapshot
Connected(q) == streams[q].pc = "streaming"

\* C25: the first message of an event stream is the snapshot and it is the
\* only snapshot message; and while the client is connected no event of the
\* task is lost: every event persisted for the task is in the snapshot, has
\* been sent after it, waits in the handle, or its publish is still to run.
\* Once every publish has run and the handle is empty, every event is in the
\* snapshot or was sent after it.
C25_SnapshotFirstAndNoEventLost ==
    \A q \in Handles :
        /\ streams[q].sent # <<>> =>
              /\ streams[q].sent[1] = 0
              /\ \A i \in 2..Len(streams[q].sent) : streams[q].sent[i] # 0
        /\ Connected(q) =>
              snapshot_events(task_events, streams[q].task_id)
                 \subseteq (streams[q].events \cup Range(streams[q].sent)
                            \cup Range(inbox[q]) \cup OnTheWay)

\* the worker is done, every publish has run, and the connected client got
\* some events in the snapshot only, some on the stream only, and one in both
C25_Witness ==
    /\ Connected("q1")
    /\ \A w \in DOMAIN workers : workers[w].pc = "done"
    /\ workers # <<>>
    /\ OnTheWay = {}
    /\ inbox["q1"] = <<>>
    /\ streams["q1"].events \ Range(streams["q1"].sent) # {}
    /\ Range(streams["q1"].sent) \ (streams["q1"].events \cup {0}) # {}
    /\ Range(streams["q1"].sent) \cap streams["q1"].events # {}

\* C26: the events forwarded to one subscriber arrive in strictly increasing
\* id order, also when a worker thread and the request thread of an API
\* call emit events of the task concurrently.
C26_ForwardedInIdOrder ==
    \A q \in Handles :
        \A i, j \in 1..Len(streams[q].sent) :
            i < j => streams[q].sent[i] < streams[q].sent[j]

\* handle q is subscribed to task_id: subscribe has returned it and
\* unsubscribe has not been called with it
Subscribed(q, task_id) ==
    /\ streams[q].pc \in {"subscribed", "streaming"}
    /\ streams[q].task_id = task_id

\* C27: a publish of event e for task_id appends e to the queue of exactly
\* the handles subscribed to task_id when it runs and leaves every other
\* queue as it is; and it runs whatever the queues hold (it never blocks
\* below the bound of the model).
C27_PublishToSubscribedOnly ==
    /\ [](reactor # <<>> /\ (\A q \in Handles : Len(inbox[q]) < MaxBacklog)
            => ENABLED hub_publish)
    /\ [][reactor # <<>> /\ reactor' = Tail(reactor) =>
            \A q \in Handles :
                inbox'[q] = IF Subscribed(q, Head(reactor).task_id)
                            THEN Append(inbox[q], Head(reactor).id)
                            ELSE inbox[q]]_vars

\* the events handle q has been given, in order
Received(q) == streams[q].sent \o inbox[q]

\* two handles of one task, one subscribed later than the other, and a
\* third event published after the first handle was unsubscribed
C27_Witness ==
    /\ streams["q1"].task_id = streams["q2"].task_id
    /\ streams["q1"].pc = "closed"
    /\ Received("q1") = <<1, 2>>
    /\ Received("q2") = <<2, 3>>


\* C30: a snapshot is the view of one instant: the task row, the step rows
\* and the events that Store.snapshot returns are together the content of
\* the Store at some instant between its first read and its last, also when
\* a worker writes between the reads.
C30_SnapshotIsOneInstant == creator = "done" => reply \in seen


\* the events of the given type in the log
EventsOf(event_type) ==
    {i \in DOMAIN task_events : task_events[i].event_type = event_type}

\* C31: a worker in which an exception was raised does not end before the
\* task is failed with the exception message as error and a task_failed
\* event carries that message.
C31_WorkerExceptionFailsTask ==
    \A w \in raised :
        workers[w].pc = "done" =>
            /\ task.status = "failed"
            /\ task.error = "exception"
            /\ \E i \in EventsOf("task_failed") :
                  task_events[i].payload.reason = "exception"


\* the last tool_run row of a step
LastRun(s) == RunsOf(s)[Len(RunsOf(s))]

\* some worker is at one of the positions pcs with step s
WorkerAt(s, pcs) ==
    \E w \in DOMAIN workers :
        /\ workers[w].pc \in pcs
        /\ workers[w].idx > 0
        /\ StepId(w) = s

\* the last attempt of step s returned ok=false: _run_with_retry has
\* returned a failed result
ToolFailed(s) ==
    /\ RunsOf(s) # <<>>
    /\ ~LastRun(s).ok
    /\ ~WorkerAt(s, {"retry_invoke", "retry_tool_run"})

\* C32: when the last attempt of step s returned ok=false, then, as soon as
\* the worker has made the write in question: step s is failed with that
\* result as output; a task_failed event for s carries the result's error
\* string, or "Step failed" for a blank one; the task is failed or, by a
\* cancel request, cancelled, and failed with that reason and s as current
\* step when no deny or cancel request wrote it; and no step after s has a
\* tool invocation.
C32_FailedResultFailsStepAndTask ==
    \A s \in DOMAIN task_steps :
        ToolFailed(s) =>
            LET reason == IF LastRun(s).error = "" THEN "Step failed"
                          ELSE LastRun(s).error
            IN  /\ ~WorkerAt(s, {"run_set_step_failed"}) =>
                      /\ task_steps[s].status = "failed"
                      /\ task_steps[s].output = output_of(LastRun(s))
                /\ ~WorkerAt(s, {"run_set_step_failed", "run_set_task_failed"}) =>
                      /\ task.status \in {"failed", "cancelled"}
                      /\ (called.deny = 0 /\ called.cancel = 0) =>
                            /\ task.status = "failed"
                            /\ task.error = reason
                            /\ task.current_step_id = s
                /\ ~WorkerAt(s, {"run_set_step_failed", "run_set_task_failed",
                                 "run_emit_failed"}) =>
                      \E i \in EventsOf("task_failed") :
                          /\ task_events[i].payload.step_id = s
                          /\ task_events[i].payload.reason = reason
                /\ \A i \in DOMAIN tool_runs : tool_runs[i].step_id <= s
                /\ \A t \in DOMAIN task_steps :
                      t > s => ~WorkerAt(t, {"retry_invoke", "retry_tool_run"})

\* C32 witness: the first step timed out and then failed with a blank error;
\* it is failed, the task is failed with "Step failed", a cancel request
\* made meanwhile was overwritten, and every thread has ended.
C32_Witness ==
    /\ Quiescent
    /\ ToolFailed(1)
    /\ Len(RunsOf(1)) = 2
    /\ LastRun(1).error = ""
    /\ task.status = "failed"
    /\ task.error = "Step failed"
    /\ called.cancel = 1
    /\ Len(task_steps) > 1

\* C33: whenever the task's status is completed, every one of its steps has
\* status completed (none is pending, in_progress, waiting_approval, failed
\* or denied), and once the worker that wrote the status has made its next
\* call, a task_completed event exists.
C33_CompletedMeansAllStepsCompleted ==
    task.status = "completed" =>
        /\ \A s \in DOMAIN task_steps : task_steps[s].status = "completed"
        /\ (\A w \in DOMAIN workers : workers[w].pc # "run_emit_task_completed")
              => EventsOf("task_completed") # {}

\* C33 witness: a task of more than one step is completed and stays so
\* although a deny request arrived while it ran; every thread has ended.
C33_Witness ==
    /\ Quiescent
    /\ task.status = "completed"
    /\ Len(task_steps) > 1
    /\ called.deny = 1
    /\ EventsOf("task_completed") # {}

\* a worker that can still write a step or task status or invoke a tool: it
\* has not returned and is not at the emit of approval_requested, after
\* which it returns
Executing(w) == workers[w].pc \notin {"run_emit_approval", "done"}

\* C34: at most one worker of the task is executing steps: whenever two
\* worker threads exist, all but one have returned or have nothing left but
\* the emit of approval_requested, so they write no step or task status and
\* invoke no tool; at no time are two workers inside a tool invocation.
C34_OneWorkerExecutes ==
    /\ \A w1, w2 \in DOMAIN workers :
          Executing(w1) /\ Executing(w2) => w1 = w2
    /\ \A w1, w2 \in DOMAIN workers :
          workers[w1].pc \in {"retry_invoke", "retry_tool_run"}
          /\ workers[w2].pc \in {"retry_invoke", "retry_tool_run"} => w1 = w2

\* C34 witness: the worker started by approve has written the approved step
\* in_progress while the worker that asked for the approval has not yet
\* stored its approval_requested event.
C34_Witness ==
    /\ Len(workers) = 2
    /\ workers[1].pc = "run_emit_approval"
    /\ workers[2].pc = "run_set_running"
    /\ task_steps[StepId(2)].status = "in_progress"

\* the request threads that got a step id from pending_approval.pop and
\* have not returned
Holders == {c \in BagToSet(calls) : c.kind \in {"approve", "deny"} /\ c.step_id # 0}

\* C35: an approval request is held in one place at a time: it is the entry
\* of pending_approval, or the step id one approve or one deny request got
\* from pop, or the worker approve started for it.  So an approve and a deny
\* request never both hold the step id of one request, no two requests of
\* the same kind do, and a request is answered by at most one resumed
\* worker.
C35_ApproveAndDenyExclusive ==
    LET executing == {w \in DOMAIN workers : Executing(w)}
    IN  /\ \A c \in Holders : CopiesIn(c, calls) = 1
        /\ Cardinality(Holders) + Cardinality(executing)
              + (IF pending_approval # 0 THEN 1 ELSE 0) <= 1
        /\ \A c \in Holders :
              c.kind = "deny" => \A w \in DOMAIN workers : w > 1 => ~Executing(w)

\* C35 witness: an approve and a deny request arrived for one pending
\* approval; deny got the step id and has denied the step, approve was
\* rejected, and no worker was started.
C35_Witness ==
    /\ called.approve = 1
    /\ returned.approve = 1
    /\ approved = {}
    /\ Len(workers) = 1
    /\ \E c \in Holders : c.kind = "deny" /\ task_steps[c.step_id].status = "denied"

\* the positions of _run from the write of in_progress to the end of the
\* tool invocation
ExecutingPcs ==
    {"run_set_in_progress", "run_set_running", "run_emit_current",
     "retry_invoke", "retry_tool_run"}

\* C36: a step that was completed is not executed again, by the worker
\* approve started or any other: once a tool_run of a step has ok = true,
\* no worker goes through that step (in_progress, tool invocation) again
\* and no further tool_run of it is recorded, so a step has at most one
\* successful run, its last.
C36_CompletedStepsNotRunAgain ==
    \A s \in DOMAIN task_steps :
        /\ \A i \in DOMAIN RunsOf(s) : RunsOf(s)[i].ok => i = Len(RunsOf(s))
        /\ (\E i \in DOMAIN RunsOf(s) : RunsOf(s)[i].ok)
              => ~WorkerAt(s, ExecutingPcs)

\* C36 witness: the worker approve started has gone past the completed
\* first step to the approved one; the first step still has its one
\* tool_run.
C36_Witness ==
    /\ Len(workers) = 2
    /\ workers[2].pc = "run_set_step_waiting"
    /\ StepId(2) \in approved
    /\ StepId(2) > 1
    /\ task_steps[1].status = "completed"
    /\ Len(RunsOf(1)) = 1

\* C37: whenever pending_approval holds step S for the task, the task's
\* status is waiting_approval, its current_step_id is S and step S has
\* status waiting_approval.
C37_PendingMeansWaiting ==
    pending_approval # 0 =>
        /\ task.status = "waiting_approval"
        /\ task.current_step_id = pending_approval
        /\ task_steps[pending_approval].status = "waiting_approval"

\* event i answers an approval request for step s: task_updated with
\* approved_step_id = s (approve) or task_failed with step_id = s and the
\* reason of a deny request
Answers(i, s) ==
    \/ /\ task_events[i].event_type = "task_updated"
       /\ task_events[i].payload.key = "approved_step_id"
       /\ task_events[i].payload.step_id = s
    \/ /\ task_events[i].event_type = "task_failed"
       /\ task_events[i].payload.reason = "deny_reason"
       /\ task_events[i].payload.step_id = s

\* C38: in the event log, every event that answers an approval request for
\* step S comes after an approval_requested event for S (has a higher id).
C38_RequestBeforeAnswer ==
    \A i \in DOMAIN task_events : \A s \in DOMAIN task_steps :
        Answers(i, s) =>
            \E j \in EventsOf("approval_requested") :
                j < i /\ task_events[j].payload.step_id = s

\* C39: the event log of the task never holds both a task_completed and a
\* task_failed event, and holds at most one task_completed event.
C39_CompletedAndFailedExclusive ==
    /\ EventsOf("task_completed") = {} \/ EventsOf("task_failed") = {}
    /\ Cardinality(EventsOf("task_completed")) <= 1

\* the statuses at which no worker of the task is at work
Settled == {"completed", "failed", "cancelled", "waiting_approval"}

\* C40: when every thread goes on as long as it has a step to take, a task
\* whose status is queued, planning or running gets the status completed,
\* failed, cancelled or waiting_approval later on, whatever approve, deny
\* and cancel requests arrive: it does not stay queued, planning or running
\* for ever.
C40_TaskSettles ==
    (task.status \in {"queued", "planning", "running"}) ~> (task.status \in Settled)

\* C40 witness: after an approve and a cancel request every thread has
\* ended, and the task waits for approval.
C40_Witness ==
    /\ Quiescent
    /\ called.approve = 1
    /\ called.cancel = 1
    /\ task.status = "waiting_approval"

====
